---- MODULE Spec2Model ----
(***************************************************************************)
(* A model of the arbitrage engine of solana-mev-arbitrage: the price      *)
(* graph (engine/graph.rs), the cycle detector (engine/detect.rs), the     *)
(* amount optimizer (engine/optimize.rs) and the detection tick of the     *)
(* supervisor (bot.rs).                                                    *)
(*                                                                         *)
(* f64 values are modelled as exact non-negative rationals extended with   *)
(* +inf, NaN and the multiples of f64::MAX that the detector produces for  *)
(* an unreached source; rounding of the mantissa is not modelled.          *)
(***************************************************************************)
EXTENDS Integers, Sequences, FiniteSets, TLC

(***************************************************************************)
(* Bounds of the model.                                                    *)
(***************************************************************************)
MaxEdges == 2
MaxHops == 3
MaxTicks == 2

(***************************************************************************)
(* Pubkeys.  Mints and pool accounts share the one type Pubkey.            *)
(***************************************************************************)
SolMint == 1
Pubkeys == 1 .. 6
DetectKeys == {1, 2, 3}

(***************************************************************************)
(* f64 arithmetic.  A value is <<kind, n, d>>:                             *)
(*   "fin": the rational n/d (d > 0, reduced), "max": f64::MAX * n/d with  *)
(*   0 < n/d <= 1, "inf": +infinity, "nan": NaN.                           *)
(***************************************************************************)
RECURSIVE Gcd(_, _)
Gcd(a, b) == IF b = 0 THEN a ELSE Gcd(b, a % b)

Fin(n, d) == <<"fin", n \div Gcd(n, d), d \div Gcd(n, d)>>
F64Max == <<"max", 1, 1>>
Inf == <<"inf", 1, 0>>
NaN == <<"nan", 0, 0>>
One == <<"fin", 1, 1>>

IsZero(x) == x[1] = "fin" /\ x[2] = 0

\* a/b < c/d for non-negative rationals, by continued fractions (no products).
RECURSIVE RLt(_, _, _, _)
RLt(a, b, c, d) ==
    LET qa == a \div b
        qc == c \div d
        ra == a % b
        rc == c % d
    IN  IF qa # qc THEN qa < qc
        ELSE IF rc = 0 THEN FALSE
        ELSE IF ra = 0 THEN TRUE
        ELSE RLt(d, rc, b, ra)

\* x * y in f64
Mul(x, y) ==
    IF x[1] = "nan" \/ y[1] = "nan" THEN NaN
    ELSE IF x[1] = "inf" THEN (IF IsZero(y) THEN NaN ELSE Inf)
    ELSE IF y[1] = "inf" THEN (IF IsZero(x) THEN NaN ELSE Inf)
    ELSE IF x[1] = "fin" /\ y[1] = "fin" THEN Fin(x[2] * y[2], x[3] * y[3])
    ELSE LET m == IF x[1] = "max" THEN x ELSE y
             f == IF x[1] = "max" THEN y ELSE x
             n == m[2] * f[2]
             d == m[3] * f[3]
         IN  IF f[1] = "max" THEN Inf
             ELSE IF n = 0 THEN Fin(0, 1)
             ELSE IF RLt(d, 1, n, 1) THEN Inf
             ELSE <<"max", n \div Gcd(n, d), d \div Gcd(n, d)>>

\* x < y in f64
Lt(x, y) ==
    IF x[1] = "nan" \/ y[1] = "nan" THEN FALSE
    ELSE IF x[1] = "inf" THEN FALSE
    ELSE IF y[1] = "inf" THEN TRUE
    ELSE IF x[1] = y[1] THEN RLt(x[2], x[3], y[2], y[3])
    ELSE x[1] = "fin"

\* 1.0 / x in f64 for a finite non-negative x
Recip(x) == IF x[2] = 0 THEN Inf ELSE Fin(x[3], x[2])

\* floor(a * b / c) and the remainder, for 0 <= a, b and 0 < c < 2^22, by
\* long multiplication over the base-256 digits of b: no intermediate
\* exceeds the result or 2^31.  t is <<quotient, remainder>> for the digits
\* already taken.
HornerStep(q, x, c) == <<q + (x \div c), x % c>>

Horner(t, a, digit, c) ==
    HornerStep(t[1] * 256 + (a \div c) * digit, t[2] * 256 + (a % c) * digit, c)

RECURSIVE MulDivRem(_, _, _)
MulDivRem(a, b, c) ==
    IF b = 0 THEN <<0, 0>>
    ELSE Horner(MulDivRem(a, b \div 256, c), a, b % 256, c)

MulDiv(a, b, c) == MulDivRem(a, b, c)[1]

(***************************************************************************)
(* engine/types.rs.  A PoolEdge carries no destination mint: add_edge gets *)
(* to_mint but only logs it.  The model keeps it in the field dst, which   *)
(* no operator of the engine reads.                                        *)
(***************************************************************************)
PoolEdge(pk, dex, price, liq, fee, to) ==
    [pool_pubkey |-> pk, dex_type |-> dex, price |-> price, liquidity_usd |-> liq,
     fee_bps |-> fee, inverse_fee_bps |-> fee, dst |-> to]

SwapLeg(edge) ==
    [from_mint |-> edge.pool_pubkey, to_mint |-> edge.pool_pubkey,
     pool_pubkey |-> edge.pool_pubkey, dex_type |-> edge.dex_type,
     amount_in |-> 0, estimated_amount_out |-> 0]

EmptyGraph == [k \in Pubkeys |-> <<>>]

\* PriceGraph::add_edge: append under from_mint, never deduplicate.
add_edge(g, from_mint, to_mint, edge) ==
    [g EXCEPT ![from_mint] = Append(@, [edge EXCEPT !.dst = to_mint])]

\* The keys of the DashMap (a key exists once an edge was pushed under it).
GraphKeys(g) == {k \in Pubkeys : g[k] # <<>>}

RECURSIVE Perms(_)
Perms(S) ==
    IF S = {} THEN {<<>>}
    ELSE UNION {{<<k>> \o p : p \in Perms(S \ {k})} : k \in S}

\* graph.edges.iter(): the entries in the map's iteration order ord, each
\* entry's Vec in insertion order, as a sequence of <<from_mint, edge>>.
RECURSIVE IterAll(_, _)
IterAll(g, ord) ==
    IF ord = <<>> THEN <<>>
    ELSE [i \in 1 .. Len(g[Head(ord)]) |-> <<Head(ord), g[Head(ord)][i]>>]
         \o IterAll(g, Tail(ord))

(***************************************************************************)
(* engine/detect.rs                                                        *)
(***************************************************************************)
Absent == <<"none", 0, 0>>
NoPred == <<>>

\* distances.get(k).copied().unwrap_or(f64::MAX)
DistOrMax(dist, k) == IF dist[k] = Absent THEN F64Max ELSE dist[k]

\* One pass of the relaxation loop over all edges (detect.rs 28-40).
RECURSIVE RelaxPass(_, _, _)
RelaxPass(L, i, st) ==
    IF i > Len(L) THEN st
    ELSE LET from_mint == L[i][1]
             edge == L[i][2]
             new_dist == Mul(DistOrMax(st.dist, from_mint), edge.price)
         IN  IF Lt(new_dist, DistOrMax(st.dist, edge.pool_pubkey))
             THEN RelaxPass(L, i + 1,
                    [dist |-> [st.dist EXCEPT ![edge.pool_pubkey] = new_dist],
                     pred |-> [st.pred EXCEPT ![edge.pool_pubkey] = <<from_mint, edge>>],
                     updated |-> TRUE, rounds |-> st.rounds])
             ELSE RelaxPass(L, i + 1, st)

\* A variant of RelaxRounds without the early exit: all max_hops rounds run.
RECURSIVE RelaxRounds_NoEarlyStop(_, _, _)
RelaxRounds_NoEarlyStop(L, left, st) ==
    IF left = 0 THEN st
    ELSE RelaxRounds_NoEarlyStop(L, left - 1,
             RelaxPass(L, 1, [st EXCEPT !.updated = FALSE, !.rounds = @ + 1]))

\* for _ in 0..max_hops { ...; if !updated { break; } } (detect.rs 24-45)
RECURSIVE RelaxRounds(_, _, _)
RelaxRounds(L, left, st) ==
    IF left = 0 THEN st
    ELSE LET nx == RelaxPass(L, 1, [st EXCEPT !.updated = FALSE, !.rounds = @ + 1])
         IN  IF nx.updated THEN RelaxRounds(L, left - 1, nx) ELSE nx

InitRelax(start_mint) ==
    [dist |-> [k \in Pubkeys |-> IF k = start_mint THEN One ELSE Absent],
     pred |-> [k \in Pubkeys |-> NoPred],
     updated |-> FALSE, rounds |-> 0]

\* The while loop of reconstruct_cycle (detect.rs 88-103).  The result is
\* [ok, path]; ok = FALSE is the `return None` of line 101.
RECURSIVE Walk(_, _, _, _, _, _, _)
Walk(pred, start, min_hops, max_hops, current, path, visited) ==
    IF pred[current] = NoPred \/ current \in visited
    THEN [ok |-> TRUE, path |-> path]
    ELSE LET path2 == Append(path, pred[current])
             prev == pred[current][1]
         IN  IF prev = start /\ Len(path2) >= min_hops
             THEN [ok |-> TRUE, path |-> path2]
             ELSE IF Len(path2) > max_hops THEN [ok |-> FALSE, path |-> path2]
             ELSE Walk(pred, start, min_hops, max_hops, prev, path2,
                       visited \cup {current})

\* total_price *= edge.price over the path (detect.rs 109-113)
RECURSIVE TotalPrice(_, _)
TotalPrice(path, i) ==
    IF i = 0 THEN One ELSE Mul(TotalPrice(path, i - 1), path[i][2].price)

\* ((total_price - 1.0) * 10_000.0) as i64: the cast truncates toward zero
\* and sends NaN to 0.
ProfitBps(total_price) ==
    CASE total_price[1] = "nan" -> 0
      [] total_price[1] = "fin" /\ total_price[2] >= total_price[3] ->
            MulDiv(total_price[2] - total_price[3], 10000, total_price[3])
      [] total_price[1] = "fin" /\ total_price[2] < total_price[3] ->
            0 - MulDiv(total_price[3] - total_price[2], 10000, total_price[3])

NoCycle == [none |-> TRUE]

\* A variant of reconstruct_cycle without the length test of line 105.
reconstruct_cycle_NoLengthTest(pred, start, end, min_hops, max_hops) ==
    LET w == Walk(pred, start, min_hops, max_hops, end, <<>>, {})
        path == w.path
    IN  IF ~w.ok THEN NoCycle
        ELSE [legs |-> [i \in 1 .. Len(path) |-> SwapLeg(path[i][2])],
              total_profit_bps |-> ProfitBps(TotalPrice(path, Len(path))),
              estimated_profit_lamports |-> 0,
              total_hops |-> Len(path),
              walk |-> path]

\* reconstruct_cycle (detect.rs 77-132).  The field walk is the path the
\* legs were built from; ArbitrageCycle does not store it.
reconstruct_cycle(pred, start, end, min_hops, max_hops) ==
    LET w == Walk(pred, start, min_hops, max_hops, end, <<>>, {})
        path == w.path
    IN  IF ~w.ok \/ Len(path) < min_hops \/ Len(path) > max_hops THEN NoCycle
        ELSE [legs |-> [i \in 1 .. Len(path) |-> SwapLeg(path[i][2])],
              total_profit_bps |-> ProfitBps(TotalPrice(path, Len(path))),
              estimated_profit_lamports |-> 0,
              total_hops |-> Len(path),
              walk |-> path]

\* The scan for edges that still relax (detect.rs 49-71).
RECURSIVE CheckPass(_, _, _, _, _, _)
CheckPass(L, i, st, min_hops, max_hops, min_profit_bps) ==
    IF i > Len(L) THEN <<>>
    ELSE LET from_mint == L[i][1]
             edge == L[i][2]
             rest == CheckPass(L, i + 1, st, min_hops, max_hops, min_profit_bps)
         IN  IF st.dist[from_mint] # Absent
                /\ Lt(Mul(st.dist[from_mint], edge.price),
                      DistOrMax(st.dist, edge.pool_pubkey))
             THEN LET c == reconstruct_cycle(st.pred, from_mint, edge.pool_pubkey,
                                             min_hops, max_hops)
                  IN  IF c # NoCycle /\ c.total_profit_bps > min_profit_bps
                      THEN <<c>> \o rest ELSE rest
             ELSE rest

\* A variant of the sort that puts a cycle before those of equal profit.
RECURSIVE InsertSorted_TiesReversed(_, _)
InsertSorted_TiesReversed(s, c) ==
    IF s = <<>> THEN <<c>>
    ELSE IF Head(s).total_profit_bps > c.total_profit_bps
         THEN <<Head(s)>> \o InsertSorted_TiesReversed(Tail(s), c)
         ELSE <<c>> \o s

\* cycles.sort_by(|a, b| b.total_profit_bps.cmp(&a.total_profit_bps)): stable.
RECURSIVE InsertSorted(_, _)
InsertSorted(s, c) ==
    IF s = <<>> THEN <<c>>
    ELSE IF Head(s).total_profit_bps >= c.total_profit_bps
         THEN <<Head(s)>> \o InsertSorted(Tail(s), c)
         ELSE <<c>> \o s

RECURSIVE SortByProfit(_, _)
SortByProfit(s, n) ==
    IF n = 0 THEN <<>> ELSE InsertSorted(SortByProfit(s, n - 1), s[n])

\* The state of the detector when relaxation ends.
Relaxed(g, ord, start_mint, max_hops) ==
    RelaxRounds(IterAll(g, ord), max_hops, InitRelax(start_mint))

\* CycleDetector::find_negative_cycles (detect.rs 11-75)
find_negative_cycles(g, ord, start_mint, min_hops, max_hops, min_profit_bps) ==
    LET L == IterAll(g, ord)
        st == RelaxRounds(L, max_hops, InitRelax(start_mint))
        found == CheckPass(L, 1, st, min_hops, max_hops, min_profit_bps)
    IN  SortByProfit(found, Len(found))


(***************************************************************************)
(* engine/graph.rs: ingestion.  rpc[vaults] is what the two vault fetches  *)
(* of a pool answer in this tick: ok = FALSE when a fetch fails, else the  *)
(* amounts parse_token_amount reads.  The balances fetched again for the   *)
(* liquidity estimate are taken to be the same amounts.                    *)
(***************************************************************************)
NoPrice == <<"err", 0, 0>>

\* PriceGraph::get_amm_price: token_amount / sol_amount, an error when a
\* fetch fails or sol_amount is 0.
get_amm_price(resp) ==
    IF ~resp.ok \/ resp.sol = 0 THEN NoPrice ELSE Fin(resp.token, resp.sol)

\* sol * 200 + token * price * 200 (graph.rs 45 and estimate_amm_liquidity)
estimate_amm_liquidity(resp) ==
    Fin(200 * (resp.sol * resp.sol + resp.token * resp.token), resp.sol)

\* The loop shared by process_raydium_pools (RaydiumV4, 25 bps) and
\* process_raydium_cp_pools (RaydiumCp, 5 bps): for each pool with a price,
\* add TOKEN -> SOL at price and SOL -> TOKEN at 1.0 / price.
RECURSIVE ProcessVaultPools(_, _, _, _, _, _, _)
ProcessVaultPools(g, mint, pools, i, dex, fee, rpc) ==
    IF i > Len(pools) THEN g
    ELSE LET price == get_amm_price(rpc[pools[i]])
             liq == estimate_amm_liquidity(rpc[pools[i]])
             fwd == PoolEdge(pools[i], dex, price, liq, fee, SolMint)
             inv == PoolEdge(pools[i], dex, Recip(price), liq, fee, mint)
         IN  IF price = NoPrice
             THEN ProcessVaultPools(g, mint, pools, i + 1, dex, fee, rpc)
             ELSE ProcessVaultPools(
                      add_edge(add_edge(g, mint, SolMint, fwd), SolMint, mint, inv),
                      mint, pools, i + 1, dex, fee, rpc)

process_raydium_pools(g, pool_data, rpc) ==
    ProcessVaultPools(g, pool_data.mint, pool_data.raydium_pools, 1, "RaydiumV4", 25, rpc)

process_raydium_cp_pools(g, pool_data, rpc) ==
    ProcessVaultPools(g, pool_data.mint, pool_data.raydium_cp_pools, 1, "RaydiumCp", 5, rpc)

\* PriceGraph::update_from_mint_pool_data, for the families of the model's
\* inventory.
update_from_mint_pool_data(g, pool_data, rpc) ==
    process_raydium_cp_pools(process_raydium_pools(g, pool_data, rpc), pool_data, rpc)

(***************************************************************************)
(* engine/optimize.rs.  Amounts are u64 lamports; `x as u64` of a product  *)
(* of f64 values is modelled as the floor of the exact product.            *)
(***************************************************************************)
NoEdge == [none |-> TRUE]
None == 0 - 1

\* AmountOptimizer::find_edge_in_graph: the first edge under leg.from_mint
\* with the leg's pool_pubkey and dex_type.
RECURSIVE FirstMatch(_, _, _)
FirstMatch(edges, leg, i) ==
    IF i > Len(edges) THEN NoEdge
    ELSE IF edges[i].pool_pubkey = leg.pool_pubkey /\ edges[i].dex_type = leg.dex_type
         THEN edges[i]
         ELSE FirstMatch(edges, leg, i + 1)

find_edge_in_graph(g, leg) == FirstMatch(g[leg.from_mint], leg, 1)

RECURSIVE FirstPool(_, _, _)
FirstPool(L, pool_pubkey, i) ==
    IF i > Len(L) THEN NoEdge
    ELSE IF L[i][2].pool_pubkey = pool_pubkey THEN L[i][2]
         ELSE FirstPool(L, pool_pubkey, i + 1)

DefaultSlippageBps == 50
BaseSlippageBps == 10
MaxSlippageBps == 100

Min(a, b) == IF a <= b THEN a ELSE b

\* edge.liquidity_usd.max(1.0)
MaxOne(liq) == IF liq[2] < liq[3] THEN One ELSE liq

\* A variant of TotalSlippage without the base of 10 bps.
TotalSlippage_NoBase(amount_in, pool_liquidity_usd) ==
    Min(MulDiv(amount_in, pool_liquidity_usd[3], pool_liquidity_usd[2]) \div 100000,
        MaxSlippageBps)

\* 10 + (amount_in / 1e9 * 200 / pool_liquidity_usd * 0.5 * 100) as u64,
\* capped at 100.  200 * 0.5 * 100 / 1e9 = 1 / 100000.
TotalSlippage(amount_in, pool_liquidity_usd) ==
    Min(BaseSlippageBps
          + (MulDiv(amount_in, pool_liquidity_usd[3], pool_liquidity_usd[2]) \div 100000),
        MaxSlippageBps)

PoolSlippage(amount_in, edge) ==
    IF edge = NoEdge THEN DefaultSlippageBps
    ELSE TotalSlippage(amount_in, MaxOne(edge.liquidity_usd))

\* AmountOptimizer::calculate_slippage_bps: the slippage from the first edge
\* of the graph with the pool, 50 when no edge has it.
calculate_slippage_bps(g, ord, amount_in, pool_pubkey) ==
    PoolSlippage(amount_in, FirstPool(IterAll(g, ord), pool_pubkey, 1))

\* (current_amount as f64 * edge.price * fee_multiplier) as u64, with
\* fee_multiplier = (10_000 - effective_fee_bps) / 10_000 and
\* effective_fee_bps = edge.fee_bps + slippage_bps.
LegOutput(g, ord, edge, current_amount, pool_pubkey) ==
    MulDiv(current_amount,
           edge.price[2]
             * (10000 - (edge.fee_bps
                         + calculate_slippage_bps(g, ord, current_amount, pool_pubkey))),
           edge.price[3] * 10000)

\* The loop of simulate_cycle_with_amount (optimize.rs 65-80): the final
\* amount, or None when an edge is missing or an output is 0.
RECURSIVE SimulateFrom(_, _, _, _, _)
SimulateOut(g, ord, legs, i, out) ==
    IF out = 0 THEN None ELSE SimulateFrom(g, ord, legs, i + 1, out)

SimulateLeg(g, ord, legs, i, current_amount, edge) ==
    IF edge = NoEdge THEN None
    ELSE SimulateOut(g, ord, legs, i,
                     LegOutput(g, ord, edge, current_amount, legs[i].pool_pubkey))

SimulateFrom(g, ord, legs, i, current_amount) ==
    IF i > Len(legs) THEN current_amount
    ELSE SimulateLeg(g, ord, legs, i, current_amount, find_edge_in_graph(g, legs[i]))

\* if current_amount > initial_amount { Some(current_amount - initial_amount) }
ProfitOf(final, initial_amount) ==
    IF final # None /\ final > initial_amount THEN final - initial_amount ELSE None

\* AmountOptimizer::simulate_cycle_with_amount: the profit, or None.
simulate_cycle_with_amount(g, ord, cycle, initial_amount) ==
    ProfitOf(SimulateFrom(g, ord, cycle.legs, 1, initial_amount), initial_amount)

\* The loop of update_leg_amounts (optimize.rs 135-148): <<the legs, the
\* final amount>>.  A leg whose edge is missing gets estimated_amount_out 0
\* and leaves current_amount as it is.
SetAmounts(legs, i, amount_in, out) ==
    [legs EXCEPT ![i] = [@ EXCEPT !.amount_in = amount_in, !.estimated_amount_out = out]]

RECURSIVE UpdateFrom(_, _, _, _, _)
UpdateOut(g, ord, legs, i, current_amount, out) ==
    UpdateFrom(g, ord, SetAmounts(legs, i, current_amount, out), i + 1, out)

UpdateLeg(g, ord, legs, i, current_amount, edge) ==
    IF edge = NoEdge
    THEN UpdateFrom(g, ord, SetAmounts(legs, i, current_amount, 0), i + 1, current_amount)
    ELSE UpdateOut(g, ord, legs, i, current_amount,
                   LegOutput(g, ord, edge, current_amount, legs[i].pool_pubkey))

UpdateFrom(g, ord, legs, i, current_amount) ==
    IF i > Len(legs) THEN <<legs, current_amount>>
    ELSE UpdateLeg(g, ord, legs, i, current_amount, find_edge_in_graph(g, legs[i]))

\* cycle.estimated_profit_lamports = current_amount.saturating_sub(initial_amount)
WithProfit(cycle, r, initial_amount) ==
    [cycle EXCEPT !.legs = r[1],
                  !.estimated_profit_lamports =
                      IF r[2] > initial_amount THEN r[2] - initial_amount ELSE 0]

\* A variant of WithProfit that stores the final amount as the profit,
\* without subtracting the initial amount.
WithFinalAmount(cycle, r, initial_amount) ==
    [cycle EXCEPT !.legs = r[1], !.estimated_profit_lamports = r[2]]

\* A variant of update_leg_amounts built on WithFinalAmount.
update_leg_amounts_FinalAmount(g, ord, cycle, initial_amount) ==
    WithFinalAmount(cycle, UpdateFrom(g, ord, cycle.legs, 1, initial_amount),
                    initial_amount)

\* AmountOptimizer::update_leg_amounts
update_leg_amounts(g, ord, cycle, initial_amount) ==
    WithProfit(cycle, UpdateFrom(g, ord, cycle.legs, 1, initial_amount), initial_amount)

MinAmount == 1000000
SearchIterations == 20

\* let mid = (low + high) / 2
Mid(st) == (st.low + st.high) \div 2

\* for _ in 0..20 { .. } (optimize.rs 37-51).  SearchStep is one iteration,
\* with profit the result of simulate_cycle_with_amount at mid.
RECURSIVE Search(_, _, _, _, _, _)
SearchStep(g, ord, cycle, min_profit_lamports, left, st, mid, profit) ==
    IF profit # None /\ profit > st.best_profit /\ profit > min_profit_lamports
    THEN Search(g, ord, cycle, min_profit_lamports, left - 1,
                [low |-> mid, high |-> st.high, best_amount |-> mid,
                 best_profit |-> profit])
    ELSE Search(g, ord, cycle, min_profit_lamports, left - 1, [st EXCEPT !.high = mid])

Search(g, ord, cycle, min_profit_lamports, left, st) ==
    IF left = 0 THEN st
    ELSE SearchStep(g, ord, cycle, min_profit_lamports, left, st, Mid(st),
                    simulate_cycle_with_amount(g, ord, cycle, Mid(st)))

\* let max_amount = (max_capital_lamports * capital_per_cycle_percent) / 100
MaxAmount(max_capital_lamports, capital_per_cycle_percent) ==
    MulDiv(max_capital_lamports, capital_per_cycle_percent, 100)

SearchFrom(max_amount) ==
    [low |-> MinAmount, high |-> max_amount, best_amount |-> 0, best_profit |-> 0]

\* A variant of SearchResult that writes the amounts of the last bracket
\* into the legs when it returns None.
SearchResult_UpdatesOnNone(g, ord, cycle, min_profit_lamports, st) ==
    IF st.best_amount > 0 /\ st.best_profit > min_profit_lamports
    THEN <<st.best_amount, update_leg_amounts(g, ord, cycle, st.best_amount)>>
    ELSE <<None, update_leg_amounts(g, ord, cycle, st.high)>>

\* The end of optimize_amount (optimize.rs 53-59): <<returned amount or
\* None, the cycle>>.
SearchResult(g, ord, cycle, min_profit_lamports, st) ==
    IF st.best_amount > 0 /\ st.best_profit > min_profit_lamports
    THEN <<st.best_amount, update_leg_amounts(g, ord, cycle, st.best_amount)>>
    ELSE <<None, cycle>>

\* A variant of optimize_amount without the early return of a cap below
\* the minimum amount.
optimize_amount_NoCapTest(g, ord, cycle, max_capital_lamports, capital_per_cycle_percent, min_profit_lamports) ==
    SearchResult(g, ord, cycle, min_profit_lamports,
        Search(g, ord, cycle, min_profit_lamports, SearchIterations,
               SearchFrom(MaxAmount(max_capital_lamports, capital_per_cycle_percent))))

\* AmountOptimizer::optimize_amount: <<returned amount or None, the cycle>>.
optimize_amount(g, ord, cycle, max_capital_lamports, capital_per_cycle_percent, min_profit_lamports) ==
    IF MaxAmount(max_capital_lamports, capital_per_cycle_percent) < MinAmount
    THEN <<None, cycle>>
    ELSE SearchResult(g, ord, cycle, min_profit_lamports,
            Search(g, ord, cycle, min_profit_lamports, SearchIterations,
                   SearchFrom(MaxAmount(max_capital_lamports, capital_per_cycle_percent))))

(***************************************************************************)
(* State.                                                                  *)
(***************************************************************************)
VARIABLES
    graph,      \* PriceGraph.edges: from_mint -> Vec<PoolEdge>
    installed,  \* the edges the latest ingestion installed, by from_mint
    tick,       \* the number of detection ticks started
    actionable, \* the <<amount, cycle>> pairs the latest tick reported
    pc,         \* the position of the program
    dargs,      \* the arguments of the last find_negative_cycles call
    cycles,     \* its result
    oargs,      \* the arguments of the last optimize_amount call
    ocycle,     \* the cycle it was given, as the call left it
    oresult,    \* the amount it returned, or None
    dpc,               \* the position of run_discovery
    dinput,            \* what the feeds and the RPC node answer in this cycle
    discovered_tokens, \* the candidate tokens not yet given a task
    semaphore,         \* the permits the semaphore has left
    tasks,             \* spawned task -> "running", or its JoinHandle's result
    joined,            \* the <<token, result>> pairs futures.next() has yielded
    all_results,       \* the DiscoveredTokens kept so far
    output,            \* what run_discovery returned
    markets,      \* BotState.markets, the shared market list
    config,       \* the loaded Config: discovery.enabled and routing.markets
    tick_markets, \* the main loop's `markets`, its clone of the shared list
    bg,           \* the position of run_background_discovery
    file,         \* the content of config.output_file
    log,          \* the last line logged about the market list or a failure
    accounts,     \* what get_account answers for the pool state accounts in this tick
    mpc,          \* the position of main's update loop
    shutdown,     \* the state of the Ctrl+C task and of its Notify
    mticks,       \* the number of update ticks main has started
    graph_engine, \* main's PetgraphEngine: graph, pool_index, pools
    call          \* the last call of a pure function: its name, arguments and result

engineVars == <<graph, installed, tick, actionable, pc, dargs, cycles, oargs, ocycle, oresult>>
discVars == <<dpc, dinput, discovered_tokens, semaphore, tasks, joined, all_results, output>>
botVars == <<markets, config, tick_markets, bg, file, log>>
chainVars == <<accounts>>
mainVars == <<mpc, shutdown, mticks, graph_engine>>
auxVars == <<mainVars, call>>
vars == <<engineVars, discVars, botVars, chainVars, auxVars>>

\* main is not running.
NoEngine == [nodes |-> {}, edges |-> [e \in {} |-> 0], pool_index |-> [a \in {} |-> 0],
             pools |-> [a \in {} |-> 0]]
MainIdle ==
    /\ mpc = "none"
    /\ shutdown = "none"
    /\ mticks = 0
    /\ graph_engine = NoEngine

\* No pure function was called.
NoCall == [fn |-> "", args |-> <<>>, result |-> <<>>]
CallIdle == call = NoCall

NoOptArgs == [ord |-> <<>>, index |-> 0, max_capital_lamports |-> 0,
              capital_per_cycle_percent |-> 0, min_profit_lamports |-> 0]
CoreIdle ==
    /\ installed = EmptyGraph
    /\ accounts = <<>>
    /\ tick = 0
    /\ actionable = <<>>
    /\ oargs = NoOptArgs
    /\ ocycle = NoCycle
    /\ oresult = None
OptIdle == CoreIdle /\ MainIdle /\ CallIdle

\* run_discovery is not running, and has returned nothing.
NoOutput == [ok |-> FALSE, timestamp |-> 0, token_count |-> 0, tokens |-> <<>>]
NoAnswer == [status |-> 0, pools |-> <<>>]
NoInput == [trending |-> NoAnswer, top |-> NoAnswer, min_liquidity_usd |-> 0, min_volume_h24 |-> 0]
DiscIdle ==
    /\ dpc = "idle"
    /\ dinput = NoInput
    /\ discovered_tokens = {}
    /\ semaphore = 0
    /\ tasks = {}
    /\ joined = {}
    /\ all_results = <<>>
    /\ output = NoOutput

\* run_bot is not running.
NoConfig == [enabled |-> FALSE, markets |-> <<>>]
BotIdle ==
    /\ markets = <<>>
    /\ config = NoConfig
    /\ tick_markets = <<>>
    /\ bg = "none"
    /\ file = NoOutput
    /\ log = ""

NoArgs == [ord |-> <<>>, start_mint |-> 0, min_hops |-> 0, max_hops |-> 0,
           min_profit_bps |-> 0]

\* The engine has not run: nothing ingested, detected or optimized.
EngineCore ==
    /\ graph = EmptyGraph
    /\ pc = "idle"
    /\ dargs = NoArgs
    /\ cycles = <<>>
    /\ CoreIdle
EngineIdle == EngineCore /\ MainIdle /\ CallIdle

(***************************************************************************)
(* Spec: the main loop of run_bot (bot.rs 93-161) over a fixed inventory:  *)
(* one token mint with a Raydium V4 pool and a Raydium CP pool.            *)
(***************************************************************************)
\* The arguments run_bot passes (bot.rs 130-136 and 140-145).
BotMinHops == 2
BotMaxHops == 5
BotMinProfitBps == 50
BotMaxCapital == 2000000000
BotCapitalPercent == 20
BotMinProfit == 500000

TokenMint == 2
V4Pool == 4
CpPool == 5
Inventory ==
    [mint |-> TokenMint, raydium_pools |-> <<V4Pool>>, raydium_cp_pools |-> <<CpPool>>]
InventoryPools == {V4Pool, CpPool}
Reserves == 0 .. 2
Responses ==
    {[ok |-> FALSE, token |-> 0, sol |-> 0]}
    \cup {[ok |-> TRUE, token |-> t, sol |-> n] : t \in Reserves, n \in Reserves}

Init ==
    /\ graph = EmptyGraph
    /\ pc = "idle"
    /\ dargs = NoArgs
    /\ cycles = <<>>
    /\ OptIdle
    /\ DiscIdle
    /\ BotIdle

\* "Build price graph from pool data" (bot.rs 124-127).
TickIngest ==
    /\ pc = "idle"
    /\ tick < MaxTicks
    /\ \E rpc \in [InventoryPools -> Responses] :
          /\ graph' = update_from_mint_pool_data(graph, Inventory, rpc)
          /\ installed' = update_from_mint_pool_data(EmptyGraph, Inventory, rpc)
    /\ tick' = tick + 1
    /\ pc' = "ingested"
    /\ UNCHANGED <<actionable, dargs, cycles, oargs, ocycle, oresult>>
    /\ UNCHANGED <<discVars, botVars, chainVars, auxVars>>

\* "Run detection cycle" (bot.rs 129-136).
TickDetect ==
    /\ pc = "ingested"
    /\ \E o \in Perms(GraphKeys(graph)) :
          /\ dargs' = [ord |-> o, start_mint |-> SolMint, min_hops |-> BotMinHops,
                       max_hops |-> BotMaxHops, min_profit_bps |-> BotMinProfitBps]
          /\ cycles' = find_negative_cycles(graph, o, SolMint, BotMinHops, BotMaxHops,
                                            BotMinProfitBps)
    /\ pc' = "detected"
    /\ UNCHANGED <<graph, installed, tick, actionable, oargs, ocycle, oresult>>
    /\ UNCHANGED <<discVars, botVars, chainVars, auxVars>>

\* The cycles of cs[i..] that optimize_amount accepts, with their amounts.
Accepted(r) == IF r[1] = None THEN <<>> ELSE <<r>>

RECURSIVE OptimizeAll(_, _, _, _)
OptimizeAll(g, ord, cs, i) ==
    IF i > Len(cs) THEN <<>>
    ELSE Accepted(optimize_amount(g, ord, cs[i], BotMaxCapital, BotCapitalPercent,
                                  BotMinProfit))
         \o OptimizeAll(g, ord, cs, i + 1)

\* `for mut cycle in cycles { optimize_amount(..) }` and the heartbeat
\* (bot.rs 138-160).
TickOptimize ==
    /\ pc = "detected"
    /\ actionable' = OptimizeAll(graph, dargs.ord, cycles, 1)
    /\ pc' = "idle"
    /\ UNCHANGED <<graph, installed, tick, dargs, cycles, oargs, ocycle, oresult>>
    /\ UNCHANGED <<discVars, botVars, chainVars, auxVars>>

Next == TickIngest \/ TickDetect \/ TickOptimize

Spec == Init /\ [][Next]_vars

(***************************************************************************)
(* DetectSpec: find_negative_cycles as a function of its inputs.  The      *)
(* graphs are built by add_edge over DetectKeys with pool_pubkey equal to  *)
(* the destination mint (the graphs on which the detector, which keys its  *)
(* distances by pool_pubkey, can chain edges), plus the graphs of the      *)
(* end-to-end scenarios 1 and 2 with either naming of the pools.           *)
(***************************************************************************)
\* No product of these prices other than a product of ones is 1, and any two
\* distinct products differ by far more than an f64 rounding error, so the
\* comparisons and the truncation computed on exact rationals are the ones
\* the f64 code makes.
Prices == {Fin(2, 3), One, Fin(5, 3)}
MinProfitChoices == {0 - 10001, 0, 50}
BigLiquidity == <<"fin", 1000000, 1>>

\* A->B @1.010, B->C @1.010, C->A @last, fee_bps 0; pools named by the
\* destination mint (byDst) or by pool accounts 4, 5, 6.
ScenarioGraph(last, byDst) ==
    LET pk(to, acct) == IF byDst THEN to ELSE acct
        g1 == add_edge(EmptyGraph, 1, 2,
                PoolEdge(pk(2, 4), "RaydiumV4", Fin(101, 100), BigLiquidity, 0, 2))
        g2 == add_edge(g1, 2, 3,
                PoolEdge(pk(3, 5), "RaydiumV4", Fin(101, 100), BigLiquidity, 0, 3))
    IN  add_edge(g2, 3, 1,
                PoolEdge(pk(1, 6), "RaydiumV4", last, BigLiquidity, 0, 1))

ScenarioGraphs ==
    {ScenarioGraph(last, byDst) : last \in {One, Fin(995, 1000)}, byDst \in BOOLEAN}

\* The round trip A->B @2.00, B->A @0.505 with fee_bps 30 on each edge; pools
\* named by the destination mint (byDst) or by pool accounts 4, 5.
FeeGraph(byDst) ==
    add_edge(add_edge(EmptyGraph, 1, 2,
                      PoolEdge(IF byDst THEN 2 ELSE 4, "RaydiumV4", Fin(2, 1),
                               BigLiquidity, 30, 2)),
             2, 1, PoolEdge(IF byDst THEN 1 ELSE 5, "RaydiumV4", Fin(505, 1000),
                            BigLiquidity, 30, 1))

FeeGraphs == {FeeGraph(byDst) : byDst \in BOOLEAN}

RECURSIVE SeqSum(_, _)
SeqSum(f, S) ==
    IF S = {} THEN 0
    ELSE LET k == CHOOSE x \in S : TRUE IN Len(f[k]) + SeqSum(f, S \ {k})

EdgeCount(g) == SeqSum(g, Pubkeys)

DetectInit ==
    /\ graph \in {EmptyGraph} \cup ScenarioGraphs \cup FeeGraphs
    /\ pc = "build"
    /\ dargs = NoArgs
    /\ cycles = <<>>
    /\ OptIdle
    /\ DiscIdle
    /\ BotIdle

AddEdgeStep ==
    /\ pc = "build"
    /\ EdgeCount(graph) < MaxEdges
    /\ \E from_mint \in DetectKeys, to_mint \in DetectKeys, price \in Prices :
          graph' = add_edge(graph, from_mint, to_mint,
                     PoolEdge(to_mint, "RaydiumV4", price, BigLiquidity, 0, to_mint))
    /\ UNCHANGED <<installed, tick, actionable, pc, dargs, cycles, oargs, ocycle, oresult>>
    /\ UNCHANGED <<discVars, botVars, chainVars, auxVars>>

DetectArgs(g) ==
    {[ord |-> o, start_mint |-> SolMint, min_hops |-> mn, max_hops |-> mx,
      min_profit_bps |-> mp] :
        o \in Perms(GraphKeys(g)), mn \in 0 .. 2, mx \in 0 .. MaxHops,
        mp \in MinProfitChoices}
    \cup
    {[ord |-> o, start_mint |-> SolMint, min_hops |-> BotMinHops,
      max_hops |-> BotMaxHops, min_profit_bps |-> mp] :
        o \in Perms(GraphKeys(g)), mp \in {BotMinProfitBps, 200}}

DetectStep ==
    /\ pc = "build"
    /\ \E a \in DetectArgs(graph) :
          /\ dargs' = a
          /\ cycles' = find_negative_cycles(graph, a.ord, a.start_mint, a.min_hops,
                                            a.max_hops, a.min_profit_bps)
    /\ pc' = "detected"
    /\ UNCHANGED <<graph, installed, tick, actionable, oargs, ocycle, oresult>>
    /\ UNCHANGED <<discVars, botVars, chainVars, auxVars>>

DetectNext == AddEdgeStep \/ DetectStep

DetectSpec == DetectInit /\ [][DetectNext]_vars


(***************************************************************************)
(* OptSpec: optimize_amount as a function of its inputs: a round trip      *)
(* 1 -> 2 (pool 4), 2 -> 1 (pool 5) with the same price, fee and liquidity *)
(* on both edges, and a two-leg cycle over it whose legs name either the   *)
(* source mints or, as reconstruct_cycle builds them, the pool accounts.   *)
(***************************************************************************)
OptPrices == {Fin(51, 50), Fin(201, 200), One, Fin(99, 100)}
OptFees == {10, 30}
OptLiquidities == {Fin(1, 2), Fin(100, 1), BigLiquidity}
OptCapitals == {2000000000, 10000100, 4000000}
OptPercents == {20, 50}
OptMinProfits == {0, 500000}

OptGraph(price, fee, liq) ==
    add_edge(add_edge(EmptyGraph, 1, 2, PoolEdge(4, "RaydiumV4", price, liq, fee, 2)),
             2, 1, PoolEdge(5, "RaydiumV4", price, liq, fee, 1))

OptLeg(from_mint, to_mint, pool) ==
    [from_mint |-> from_mint, to_mint |-> to_mint, pool_pubkey |-> pool,
     dex_type |-> "RaydiumV4", amount_in |-> 0, estimated_amount_out |-> 0]

\* byMint: legs with from_mint / to_mint the mints of the edge; otherwise
\* the legs reconstruct_cycle builds for the two edges.
OptCycle(g, byMint) ==
    [legs |-> IF byMint THEN <<OptLeg(1, 2, 4), OptLeg(2, 1, 5)>>
              ELSE <<SwapLeg(g[1][1]), SwapLeg(g[2][1])>>,
     total_profit_bps |-> ProfitBps(Mul(g[1][1].price, g[2][1].price)),
     estimated_profit_lamports |-> 0,
     total_hops |-> 2,
     walk |-> <<<<1, g[1][1]>>, <<2, g[2][1]>>>>]

OptInit ==
    /\ \E price \in OptPrices, fee \in OptFees, liq \in OptLiquidities,
          byMint \in BOOLEAN :
          /\ graph = OptGraph(price, fee, liq)
          /\ cycles = <<OptCycle(graph, byMint)>>
    /\ pc = "detected"
    /\ dargs = NoArgs
    /\ OptIdle
    /\ DiscIdle
    /\ BotIdle

OptArgs(g, cs) ==
    {[ord |-> o, index |-> i, max_capital_lamports |-> mc,
      capital_per_cycle_percent |-> cp, min_profit_lamports |-> mp] :
        o \in Perms(GraphKeys(g)), i \in 1 .. Len(cs), mc \in OptCapitals,
        cp \in OptPercents, mp \in OptMinProfits}

\* The call's arguments, its result and the cycle it leaves behind.
Optimized(a, r) ==
    /\ oargs' = a
    /\ oresult' = r[1]
    /\ ocycle' = r[2]

\* One pass of `for mut cycle in cycles { optimize_amount(&mut cycle, ..) }`
\* (bot.rs 139-145), with the arguments drawn from OptArgs.
OptimizeStep ==
    /\ pc = "detected"
    /\ \E a \in OptArgs(graph, cycles) :
          Optimized(a, optimize_amount(graph, a.ord, cycles[a.index],
                                       a.max_capital_lamports,
                                       a.capital_per_cycle_percent,
                                       a.min_profit_lamports))
    /\ pc' = "optimized"
    /\ UNCHANGED <<graph, installed, tick, actionable, dargs, cycles>>
    /\ UNCHANGED <<discVars, botVars, chainVars, auxVars>>

OptNext == OptimizeStep

OptSpec == OptInit /\ [][OptNext]_vars

(***************************************************************************)
(* Discovery: DiscoveryEngine::run_discovery (discovery/engine.rs).        *)
(* A String is the sequence of its characters; a program id is only ever   *)
(* compared, and is a string.  A liquidity or a volume is a whole number   *)
(* of thousand dollars, which f64 holds exactly.                           *)
(***************************************************************************)
\* The element of a one-element set: The({F(v) : v \in {e}}) is F(e), with
\* e evaluated once.
The(S) == CHOOSE x \in S : TRUE

\* An 8-character address starting with a, b.
Addr(a, b) == <<a, b, "1", "1", "1", "1", "1", "1">>

SOL_MINT == Addr("S", "o")
USDC_MINT == Addr("E", "P")
USDT_MINT == Addr("E", "s")

RAYDIUM_V4_PROGRAM == "675kPX9MHTjS2zt1qfr1NYHuzeLXfQM9H24wFSUt1Mp8"
RAYDIUM_CLMM_PROGRAM == "CAMMCzo5YL8w4VFF8KVHrK22GGUsp5VTaW7grrKgrWqK"
RAYDIUM_CP_PROGRAM == "CPMMoo8L3F4NbTegBCKVNunggL7H1ZpdTHKxQB5qKP1C"
METEORA_DLMM_PROGRAM == "LBUZKhRxPF3XUpBCjp4YzTKgLccjZhTSDM9YuVaPwxo"
METEORA_DAMM_PROGRAM == "Eo7WjKq67rjJQSZxS6z3YkapzY3eMj6Xy8X5EQVn5UaB"
ORCA_WHIRLPOOL_PROGRAM == "whirLbMiicVdio4qvUfM5KAg6Ct8VwpYzGff3uctyCc"
PUMP_PROGRAM == "pAMMBay6oceH9fJKBRHGP5D4bD4sWpmSwMn52FMfXEA"

CONCURRENT_RPC_CHECKS == 5

\* Some((dex_type, program_id)), None and Err(_).
SomeDex(dex_type, program_id) ==
    [kind |-> "some", dex_type |-> dex_type, program_id |-> program_id]
NoDex == [kind |-> "none", dex_type |-> "", program_id |-> ""]
DexErr == [kind |-> "err", dex_type |-> "", program_id |-> ""]

\* The mutant of identify_specific_dex_type: an owner off the whitelist is
\* admitted under its own id.
identify_specific_dex_type_AnyOwner(owner) == SomeDex("unknown", owner)

\* identify_specific_dex_type (engine.rs 117-130).
identify_specific_dex_type(owner) ==
    CASE owner = RAYDIUM_V4_PROGRAM -> SomeDex("raydium-v4", RAYDIUM_V4_PROGRAM)
      [] owner = RAYDIUM_CLMM_PROGRAM -> SomeDex("raydium-clmm", RAYDIUM_CLMM_PROGRAM)
      [] owner = RAYDIUM_CP_PROGRAM -> SomeDex("raydium-cp", RAYDIUM_CP_PROGRAM)
      [] owner = METEORA_DLMM_PROGRAM -> SomeDex("meteora-dlmm", METEORA_DLMM_PROGRAM)
      [] owner = METEORA_DAMM_PROGRAM -> SomeDex("meteora-damm-v2", METEORA_DAMM_PROGRAM)
      [] owner = ORCA_WHIRLPOOL_PROGRAM -> SomeDex("orca-whirlpool", ORCA_WHIRLPOOL_PROGRAM)
      [] owner = PUMP_PROGRAM -> SomeDex("pump", PUMP_PROGRAM)
      [] OTHER -> NoDex

\* verify_pool_on_chain (engine.rs 133-150).  account is what get_account
\* answers for the address: "invalid" when the address is no pubkey,
\* "missing" when the fetch fails, the owner otherwise.
verify_pool_on_chain(account) ==
    IF account = "invalid" THEN DexErr
    ELSE IF account = "missing" THEN NoDex
    ELSE identify_specific_dex_type(account)

\* str::replace(pat, ""): the matches of pat, left to right and not
\* overlapping, are removed.
StartsWith(s, pat) == Len(s) >= Len(pat) /\ SubSeq(s, 1, Len(pat)) = pat
RECURSIVE Replace(_, _)
Replace(s, pat) ==
    IF s = <<>> THEN <<>>
    ELSE IF StartsWith(s, pat) THEN Replace(SubSeq(s, Len(pat) + 1, Len(s)), pat)
    ELSE <<Head(s)>> \o Replace(Tail(s), pat)

SolanaPrefix == <<"s", "o", "l", "a", "n", "a", "_">>
ignored_mints == {SOL_MINT, USDC_MINT, USDT_MINT}

\* The base-token ids of the harvested pools that have relationships, with
\* "solana_" removed (engine.rs 198-204).
BaseTokens(initial_pools) ==
    {Replace(initial_pools[i].id, SolanaPrefix) :
        i \in {j \in DOMAIN initial_pools : initial_pools[j].relationships}}

\* The mutant of DiscoveredTokens: the denylist is applied to the ids as
\* harvested, before "solana_" is removed.
DiscoveredTokens_FilterBeforeReplace(initial_pools) ==
    {Replace(initial_pools[i].id, SolanaPrefix) :
        i \in {j \in DOMAIN initial_pools :
                  /\ initial_pools[j].relationships
                  /\ initial_pools[j].id \notin ignored_mints}}

\* discovered_tokens (engine.rs 196-206).
DiscoveredTokens(initial_pools) == BaseTokens(initial_pools) \ ignored_mints

\* The pair a token's pair list holds, as process_token reads it: base and
\* quote are the token addresses, NoToken when the field is absent; liq and
\* vol are NoNumber when liquidity.usd or volume.h24 is absent.
NoToken == <<>>
NoNumber == 0 - 1
OrZero(x) == IF x = NoNumber THEN 0 ELSE x

\* Which side of the pair is SOL (engine.rs 349-364), "" when neither is.
SolSide(pair) ==
    IF pair.base = NoToken \/ pair.quote = NoToken THEN ""
    ELSE IF pair.base = SOL_MINT THEN "base"
    ELSE IF pair.quote = SOL_MINT THEN "quote"
    ELSE ""

DiscoveredPool(pair, dex, sol_side) ==
    [pool_address |-> pair.pair_address, dex_type |-> dex.dex_type,
     program_id |-> dex.program_id,
     liquidity_usd |-> OrZero(pair.liq), volume_h24 |-> OrZero(pair.vol),
     sol_side |-> sol_side]

\* The mutant of Admit: the liquidity and volume tests are left out.
Admit_NoThresholds(cfg, pair) == TRUE

\* liq >= config.min_liquidity_usd && vol >= config.min_volume_h24
\* (engine.rs 375-378).
Admit(cfg, pair) ==
    OrZero(pair.liq) >= cfg.min_liquidity_usd /\ OrZero(pair.vol) >= cfg.min_volume_h24

\* One turn of the loop over the pairs (engine.rs 348-388): st.pools is
\* verified_pools, st.err is set when verify_pool_on_chain returned Err.
PairStep(cfg, st, pair, side, dex) ==
    IF st.err \/ side = "" THEN st
    ELSE IF dex.kind = "err" THEN [st EXCEPT !.err = TRUE]
    ELSE IF dex.kind = "none" \/ ~Admit(cfg, pair) THEN st
    ELSE [st EXCEPT !.pools = Append(@, DiscoveredPool(pair, dex, side))]

RECURSIVE PairLoop(_, _, _, _)
PairLoop(cfg, chain, pairs, n) ==
    IF n = 0 THEN [pools |-> <<>>, err |-> FALSE]
    ELSE The({PairStep(cfg, st, pairs[n], SolSide(pairs[n]), dex) :
                 st \in {PairLoop(cfg, chain, pairs, n - 1)},
                 dex \in {verify_pool_on_chain(chain[pairs[n].pair_address])}})

\* The mutant of InsertByLiquidity: ascending liquidity.
RECURSIVE InsertByLiquidity_Ascending(_, _)
InsertByLiquidity_Ascending(s, p) ==
    IF s = <<>> THEN <<p>>
    ELSE IF Head(s).liquidity_usd <= p.liquidity_usd
         THEN <<Head(s)>> \o InsertByLiquidity_Ascending(Tail(s), p)
         ELSE <<p>> \o s

\* sort_by(|a, b| b.liquidity_usd.partial_cmp(&a.liquidity_usd).unwrap()):
\* stable, descending.
RECURSIVE InsertByLiquidity(_, _)
InsertByLiquidity(s, p) ==
    IF s = <<>> THEN <<p>>
    ELSE IF Head(s).liquidity_usd >= p.liquidity_usd
         THEN <<Head(s)>> \o InsertByLiquidity(Tail(s), p)
         ELSE <<p>> \o s

RECURSIVE SortByLiquidity(_, _)
SortByLiquidity(s, n) ==
    IF n = 0 THEN <<>>
    ELSE The({InsertByLiquidity(sorted, s[n]) : sorted \in {SortByLiquidity(s, n - 1)}})

RECURSIVE TotalLiquidity(_, _)
TotalLiquidity(s, n) ==
    IF n = 0 THEN 0 ELSE TotalLiquidity(s, n - 1) + s[n].liquidity_usd

\* The state of a task: running, or what process_token returned (Ok(None),
\* Err(_), Ok(Some(token))), or its panic.
NoResult(kind) ==
    [kind |-> kind, token_address |-> <<>>, total_liquidity |-> 0, pools |-> <<>>]
Running == NoResult("running")
TaskNone == NoResult("none")
TaskErr == NoResult("err")
TaskPanic == NoResult("panic")

DiscoveredToken(token_addr, pools) ==
    [kind |-> "some", token_address |-> token_addr,
     total_liquidity |-> TotalLiquidity(pools, Len(pools)), pools |-> pools]

\* The end of process_token (engine.rs 390-406).
TokenResult(token_addr, st) ==
    IF st.err THEN TaskErr
    ELSE IF Len(st.pools) < 2 THEN TaskNone
    ELSE The({DiscoveredToken(token_addr, pools) :
                 pools \in {SortByLiquidity(st.pools, Len(st.pools))}})

\* process_token (engine.rs 319-407).  resp is the answer of the pair feed:
\* on a fetch or parse error the log line slices token_addr[..8], which
\* panics on a shorter address.
process_token(cfg, chain, token_addr, resp) ==
    IF resp.fetch # "ok" THEN (IF Len(token_addr) < 8 THEN TaskPanic ELSE TaskNone)
    ELSE The({TokenResult(token_addr, st) :
                 st \in {PairLoop(cfg, chain, resp.pairs, Len(resp.pairs))}})

\* all_results.sort_by(|a, b| b.total_liquidity.partial_cmp(..)): stable,
\* descending (engine.rs 246).
RECURSIVE InsertByTotal(_, _)
InsertByTotal(s, t) ==
    IF s = <<>> THEN <<t>>
    ELSE IF Head(s).total_liquidity >= t.total_liquidity
         THEN <<Head(s)>> \o InsertByTotal(Tail(s), t)
         ELSE <<t>> \o s

RECURSIVE SortByTotal(_, _)
SortByTotal(s, n) ==
    IF n = 0 THEN <<>>
    ELSE The({InsertByTotal(sorted, s[n]) : sorted \in {SortByTotal(s, n - 1)}})

\* The DiscoveredPools run_discovery returns (engine.rs 246-257).
DiscoveredPools(results) ==
    [ok |-> TRUE, timestamp |-> 1, token_count |-> Len(results),
     tokens |-> SortByTotal(results, Len(results))]

\* One arm of the match on a joined task (engine.rs 234-243).
Keep(results, r) ==
    IF r.kind = "some" /\ Len(r.pools) >= 2 THEN Append(results, r) ELSE results

\* DiscoveryEngine::convert_to_markets (engine.rs 292-303).
RECURSIVE PoolAddresses(_, _)
PoolAddresses(pools, n) ==
    IF n = 0 THEN <<>> ELSE Append(PoolAddresses(pools, n - 1), pools[n].pool_address)

RECURSIVE ConvertTokens(_, _)
ConvertTokens(tokens, n) ==
    IF n = 0 THEN <<>>
    ELSE ConvertTokens(tokens, n - 1) \o PoolAddresses(tokens[n].pools, Len(tokens[n].pools))

convert_to_markets(pools) == ConvertTokens(pools.tokens, Len(pools.tokens))

(***************************************************************************)
(* DiscSpec: one call of run_discovery.  The feeds' answers are drawn from *)
(* DiscInputs; the pair feed and the chain are fixed, and a fetch of the   *)
(* pair feed may fail.  DiscLiveSpec adds that the caller and every        *)
(* spawned task keep running: tokio schedules each ready task.             *)
(***************************************************************************)
TokenA == Addr("T", "a")
TokenB == Addr("T", "b")
TokenC == Addr("T", "c")
TokenD == Addr("T", "d")
TokenE == <<"T", "e">>
TokenF == Addr("T", "f")
TokenG == Addr("T", "g")

Pair(pair_address, base, quote, liq, vol) ==
    [pair_address |-> pair_address, base |-> base, quote |-> quote, liq |-> liq,
     vol |-> vol]

\* What the pair feed lists for a token.
PairFeed(token_addr) ==
    CASE token_addr = TokenA ->
            <<Pair("A3", TokenA, SOL_MINT, 3, 5), Pair("A2", SOL_MINT, TokenA, 8, 5),
              Pair("A1", TokenA, SOL_MINT, 10, 5), Pair("A4", TokenA, SOL_MINT, 30, 5),
              Pair("A5", TokenA, SOL_MINT, 30, 5), Pair("A6", TokenA, USDC_MINT, 30, 5)>>
      [] token_addr = TokenB ->
            <<Pair("B1", TokenB, SOL_MINT, 5, 1), Pair("B2", TokenB, SOL_MINT, 20, 5),
              Pair("B3", TokenB, SOL_MINT, NoNumber, 5),
              Pair("B4", TokenB, SOL_MINT, 20, NoNumber)>>
      [] token_addr = TokenC ->
            <<Pair("C1", TokenC, SOL_MINT, 10, 5), Pair("C2", TokenC, SOL_MINT, 10, 5),
              Pair("C3", TokenC, SOL_MINT, 10, 5)>>
      [] token_addr = TokenD ->
            <<Pair("D1", TokenD, SOL_MINT, 9, 5), Pair("D2", SOL_MINT, TokenD, 9, 5)>>
      [] token_addr = TokenE ->
            <<Pair("E1", TokenE, SOL_MINT, 10, 5)>>
      [] token_addr = TokenG ->
            <<Pair("G1", TokenG, SOL_MINT, 10, 5), Pair("G3", TokenG, SOL_MINT, 3, 5),
              Pair("G2", TokenG, SOL_MINT, 8, 5)>>
      [] token_addr = SOL_MINT ->
            <<Pair("S1", SOL_MINT, USDC_MINT, 40, 5), Pair("S2", USDT_MINT, SOL_MINT, 40, 5)>>
      [] OTHER ->
            <<Pair("F1", NoToken, SOL_MINT, 10, 5), Pair("F2", SOL_MINT, NoToken, 10, 5)>>

PoolAddrs ==
    {"A1", "A2", "A3", "A4", "A5", "A6", "B1", "B2", "B3", "B4", "C1", "C2", "C3", "D1",
     "D2", "E1", "F1", "F2", "G1", "G2", "G3", "S1", "S2"}

\* What get_account answers for a pool address.
Chain ==
    [a \in PoolAddrs |->
        CASE a = "A1" -> RAYDIUM_V4_PROGRAM
          [] a = "A2" -> RAYDIUM_CLMM_PROGRAM
          [] a = "A3" -> ORCA_WHIRLPOOL_PROGRAM
          [] a = "A4" -> "11111111111111111111111111111111"
          [] a = "A5" -> "missing"
          [] a = "A6" -> RAYDIUM_CP_PROGRAM
          [] a = "B1" -> RAYDIUM_V4_PROGRAM
          [] a = "C1" -> METEORA_DAMM_PROGRAM
          [] a = "C2" -> "invalid"
          [] a = "D1" -> PUMP_PROGRAM
          [] a = "D2" -> METEORA_DLMM_PROGRAM
          [] OTHER -> RAYDIUM_CP_PROGRAM]

GeckoPool(id) == [relationships |-> TRUE, id |-> id]
NoRelationships == [relationships |-> FALSE, id |-> <<>>]

FullFeed ==
    <<GeckoPool(SolanaPrefix \o TokenA), GeckoPool(SolanaPrefix \o TokenB),
      GeckoPool(TokenC), GeckoPool(SolanaPrefix \o TokenD),
      GeckoPool(SolanaPrefix \o TokenE), GeckoPool(SolanaPrefix \o TokenF),
      GeckoPool(SolanaPrefix \o SOL_MINT), GeckoPool(USDC_MINT),
      GeckoPool(SolanaPrefix \o USDT_MINT),
      GeckoPool(<<"S">> \o SolanaPrefix \o Tail(SOL_MINT)),
      GeckoPool(SolanaPrefix \o TokenA), NoRelationships>>
SmallFeed ==
    <<GeckoPool(SolanaPrefix \o TokenA), GeckoPool(SolanaPrefix \o SOL_MINT),
      GeckoPool(SolanaPrefix \o TokenB)>>
DeniedFeed == <<GeckoPool(SolanaPrefix \o SOL_MINT), NoRelationships>>
\* One token with three verified SOL pools of 10, 3 and 8 (thousand USD).
ThreePoolFeed == <<GeckoPool(SolanaPrefix \o TokenG)>>

\* What an endpoint of the feed answers: an HTTP status with the pools of
\* the body, or no answer at all (status 0: send() fails).
Answer(status, pools) == [status |-> status, pools |-> pools]

\* DiscoveryEngine::fetch_gecko_pools (engine.rs 305-316): error_for_status
\* turns every 4xx and 5xx answer into an error before the status is
\* compared with 404.
fetch_gecko_pools(answer) ==
    IF answer.status = 0 \/ answer.status >= 400 THEN [ok |-> FALSE, pools |-> <<>>]
    ELSE IF answer.status = 404 THEN [ok |-> TRUE, pools |-> <<>>]
    ELSE [ok |-> TRUE, pools |-> answer.pools]

\* The harvest of run_discovery (engine.rs 187-193): trending pools, then
\* top pools, each with `?`.
HarvestOk(input) ==
    fetch_gecko_pools(input.trending).ok /\ fetch_gecko_pools(input.top).ok
Feed(input) ==
    fetch_gecko_pools(input.trending).pools \o fetch_gecko_pools(input.top).pools

\* An input with the first pool of f on the trending endpoint and the rest
\* on the top endpoint.
DiscInput(trending, top, min_liquidity_usd) ==
    [trending |-> trending, top |-> top, min_liquidity_usd |-> min_liquidity_usd,
     min_volume_h24 |-> 1]

DiscInputs ==
    {DiscInput(Answer(200, <<Head(f)>>), Answer(200, Tail(f)), l) :
        f \in {FullFeed, SmallFeed, DeniedFeed}, l \in {5, 20}}
    \cup {DiscInput(Answer(404, <<>>), Answer(200, SmallFeed), 5),
          DiscInput(Answer(200, SmallFeed), Answer(404, <<>>), 5),
          DiscInput(Answer(200, SmallFeed), Answer(500, <<>>), 5),
          DiscInput(Answer(0, <<>>), Answer(200, SmallFeed), 5)}
    \cup {DiscInput(Answer(200, ThreePoolFeed), Answer(200, <<>>), l) : l \in {5, 20}}

Fetches == {"ok", "fetch_error", "parse_error"}
Response(fetch, token_addr) == [fetch |-> fetch, pairs |-> PairFeed(token_addr)]

DiscInit ==
    /\ EngineIdle
    /\ BotIdle
    /\ dpc = "harvest"
    /\ dinput \in DiscInputs
    /\ discovered_tokens = {}
    /\ semaphore = 0
    /\ tasks = {}
    /\ joined = {}
    /\ all_results = <<>>
    /\ output = NoOutput

\* The harvest and the token set (engine.rs 184-216).  With no candidate
\* token both loops are empty and run_discovery returns at once.
Harvest ==
    /\ dpc = "harvest"
    /\ IF ~HarvestOk(dinput)
       THEN /\ dpc' = "failed"
            /\ UNCHANGED <<discovered_tokens, semaphore, output>>
       ELSE /\ discovered_tokens' = DiscoveredTokens(Feed(dinput))
            /\ semaphore' = CONCURRENT_RPC_CHECKS
            /\ IF DiscoveredTokens(Feed(dinput)) = {}
               THEN dpc' = "done" /\ output' = DiscoveredPools(<<>>)
               ELSE dpc' = "spawn" /\ UNCHANGED output
    /\ UNCHANGED <<dinput, tasks, joined, all_results>>
    /\ UNCHANGED <<engineVars, botVars, chainVars, auxVars>>

\* One turn of the spawning loop (engine.rs 219-230): acquire_owned waits
\* for a permit; the tokens come in the HashSet's order.
Spawn ==
    /\ dpc = "spawn"
    /\ semaphore > 0
    /\ \E t \in discovered_tokens :
          /\ discovered_tokens' = discovered_tokens \ {t}
          /\ tasks' = tasks \cup {[token |-> t, result |-> Running]}
          /\ dpc' = IF discovered_tokens = {t} THEN "collect" ELSE "spawn"
    /\ semaphore' = semaphore - 1
    /\ UNCHANGED <<dinput, joined, all_results, output>>
    /\ UNCHANGED <<engineVars, botVars, chainVars, auxVars>>

Finished(task, result) == [token |-> task.token, result |-> result]

\* The mutant of TaskRun: a task that panics keeps its permit.
TaskRun_PanicKeepsPermit ==
    /\ \E task \in {t \in tasks : t.result = Running}, fetch \in Fetches :
          /\ tasks' = (tasks \ {task}) \cup
                {Finished(task, process_token(dinput, Chain, task.token,
                                              Response(fetch, task.token)))}
          /\ semaphore' =
                IF process_token(dinput, Chain, task.token,
                                 Response(fetch, task.token)) = TaskPanic
                THEN semaphore ELSE semaphore + 1
    /\ UNCHANGED <<dpc, dinput, discovered_tokens, joined, all_results, output>>
    /\ UNCHANGED <<engineVars, botVars, chainVars, auxVars>>

\* A spawned task runs to its end (engine.rs 224-227): _permit is dropped
\* when the future completes or unwinds.
TaskRun ==
    /\ \E task \in {t \in tasks : t.result = Running}, fetch \in Fetches :
          tasks' = (tasks \ {task}) \cup
                {Finished(task, process_token(dinput, Chain, task.token,
                                              Response(fetch, task.token)))}
    /\ semaphore' = semaphore + 1
    /\ UNCHANGED <<dpc, dinput, discovered_tokens, joined, all_results, output>>
    /\ UNCHANGED <<engineVars, botVars, chainVars, auxVars>>

\* One turn of the collecting loop (engine.rs 232-244), and, when no task
\* is left, the sort and the return (engine.rs 246-257).
Join ==
    /\ dpc = "collect"
    /\ \E task \in {t \in tasks : t.result # Running} :
          /\ tasks' = tasks \ {task}
          /\ joined' = joined \cup {<<task.token, task.result>>}
          /\ all_results' = Keep(all_results, task.result)
          /\ IF tasks = {task}
             THEN dpc' = "done" /\ output' = DiscoveredPools(Keep(all_results, task.result))
             ELSE UNCHANGED <<dpc, output>>
    /\ UNCHANGED <<dinput, discovered_tokens, semaphore>>
    /\ UNCHANGED <<engineVars, botVars, chainVars, auxVars>>

DiscNext == Harvest \/ Spawn \/ TaskRun \/ Join

DiscSpec == DiscInit /\ [][DiscNext]_vars

DiscLiveSpec ==
    DiscSpec /\ WF_vars(Harvest) /\ WF_vars(Spawn) /\ WF_vars(TaskRun) /\ WF_vars(Join)

(***************************************************************************)
(* BotSpec: run_bot and run_background_discovery (bot.rs).  The config     *)
(* enables discovery or not and carries a static market list; a discovery  *)
(* cycle returns Err or one of Snapshots; the pools the ticks ingest are   *)
(* the two pools of Inventory, listed in the pair feed as B1 and B2.       *)
(***************************************************************************)
BotDiscoveryConfig ==
    DiscInput(Answer(200, <<>>), Answer(200, SmallFeed), 5)

\* The token a task returns for token_addr when the pair feed answers.
Resolved(token_addr) ==
    process_token(BotDiscoveryConfig, Chain, token_addr, Response("ok", token_addr))

\* What run_discovery returns when no task, one task or both tasks return
\* a token.
Snapshots ==
    {DiscoveredPools(<<>>), DiscoveredPools(<<Resolved(TokenB)>>),
     DiscoveredPools(<<Resolved(TokenA), Resolved(TokenB)>>)}

\* A write that failed may have left the file as it was or cut short.
PartialFile == [ok |-> FALSE, timestamp |-> 1, token_count |-> 0, tokens |-> <<>>]

\* DiscoveryEngine::save_results (engine.rs 261-271).
save_results(old, results, ok) == IF ok THEN {results} ELSE {old, PartialFile}

StaticMarkets == {<<>>, <<"B1">>}
Configs == {[enabled |-> e, markets |-> ms] : e \in BOOLEAN, ms \in StaticMarkets}

\* crate::refresh::initialize_pools_from_markets is not part of src/: the
\* pools of the inventory that the market list names, under their mint.
initialize_pools_from_markets(ms) ==
    [mint |-> TokenMint,
     raydium_pools |-> IF \E i \in DOMAIN ms : ms[i] = "B1" THEN <<V4Pool>> ELSE <<>>,
     raydium_cp_pools |-> IF \E i \in DOMAIN ms : ms[i] = "B2" THEN <<CpPool>> ELSE <<>>]

BotResponses == {[ok |-> FALSE, token |-> 0, sol |-> 0], [ok |-> TRUE, token |-> 2, sol |-> 1]}

discRest == <<dpc, dinput, discovered_tokens, semaphore, tasks, joined, all_results>>
tickVars == <<installed, actionable, dargs, cycles, oargs, ocycle, oresult>>

BotInit ==
    /\ graph = EmptyGraph
    /\ dargs = NoArgs
    /\ cycles = <<>>
    /\ OptIdle
    /\ DiscIdle
    /\ pc = "start"
    /\ config \in Configs
    /\ markets = <<>>
    /\ tick_markets = <<>>
    /\ bg = "none"
    /\ file = NoOutput
    /\ log = ""

\* The mutant of BootDiscovery: a failed discovery leaves the list empty.
BootDiscovery_NoFallback ==
    /\ pc = "start"
    /\ config.enabled
    /\ \/ \E results \in Snapshots, ok \in BOOLEAN :
             /\ output' = results
             /\ file' \in save_results(file, results, ok)
             /\ markets' = convert_to_markets(results)
             /\ log' = IF ok THEN "saved" ELSE "Failed to save discovery results"
       \/ /\ log' = "Initial discovery failed"
          /\ UNCHANGED <<output, file, markets>>
    /\ bg' = "sleeping"
    /\ pc' = "idle"
    /\ UNCHANGED <<graph, tick, tickVars, discRest, config, tick_markets, chainVars, auxVars>>

\* Bootstrap with discovery enabled (bot.rs 38-79): one discovery cycle,
\* then the background task is spawned.
BootDiscovery ==
    /\ pc = "start"
    /\ config.enabled
    /\ \/ \E results \in Snapshots, ok \in BOOLEAN :
             /\ output' = results
             /\ file' \in save_results(file, results, ok)
             /\ markets' = convert_to_markets(results)
             /\ log' = IF ok THEN "saved" ELSE "Failed to save discovery results"
       \/ /\ markets' = config.markets
          /\ log' = "Initial discovery failed"
          /\ UNCHANGED <<output, file>>
    /\ bg' = "sleeping"
    /\ pc' = "idle"
    /\ UNCHANGED <<graph, tick, tickVars, discRest, config, tick_markets, chainVars, auxVars>>

\* Bootstrap with discovery disabled or absent (bot.rs 80-84).
BootStatic ==
    /\ pc = "start"
    /\ ~config.enabled
    /\ markets' = config.markets
    /\ log' = "Using static markets"
    /\ pc' = "idle"
    /\ UNCHANGED <<graph, tick, tickVars, discVars, config, tick_markets, bg, file, chainVars, auxVars>>

\* The mutant of TickStart: an empty list is processed like any other.
TickStart_NoSkip ==
    /\ pc = "idle"
    /\ tick < MaxTicks
    /\ tick' = tick + 1
    /\ tick_markets' = markets
    /\ pc' = "snapshotted"
    /\ log' = "Processing markets"
    /\ UNCHANGED <<graph, tickVars, discVars, markets, config, bg, file, chainVars, auxVars>>

\* The head of a tick (bot.rs 94-101): the list is cloned under the read
\* lock; an empty list skips the tick.
TickStart ==
    /\ pc = "idle"
    /\ tick < MaxTicks
    /\ tick' = tick + 1
    /\ tick_markets' = markets
    /\ IF markets = <<>>
       THEN pc' = "idle" /\ log' = "No markets configured, skipping cycle"
       ELSE pc' = "snapshotted" /\ log' = "Processing markets"
    /\ UNCHANGED <<graph, tickVars, discVars, markets, config, bg, file, chainVars, auxVars>>

\* The mutant of TickBuild: the pools are initialized from the shared list
\* as it is now, not from the tick's clone.
TickBuild_SharedList ==
    /\ pc = "snapshotted"
    /\ \/ /\ pc' = "idle"
          /\ log' = "Failed to initialize pools"
          /\ UNCHANGED <<graph, installed>>
       \/ \E rpc \in [InventoryPools -> BotResponses] :
             /\ graph' = update_from_mint_pool_data(
                             graph, initialize_pools_from_markets(markets), rpc)
             /\ installed' = update_from_mint_pool_data(
                                 EmptyGraph, initialize_pools_from_markets(markets), rpc)
             /\ pc' = "ingested"
             /\ log' = "Initialized mints from markets"
    /\ UNCHANGED <<tick, actionable, dargs, cycles, oargs, ocycle, oresult>>
    /\ UNCHANGED <<discVars, markets, config, tick_markets, bg, file, chainVars, auxVars>>

\* The mutant of TickBuild: a failed pool initialization is logged and the
\* tick goes on to detection.
TickBuild_NoAbort ==
    /\ pc = "snapshotted"
    /\ \/ /\ pc' = "ingested"
          /\ log' = "Failed to initialize pools"
          /\ UNCHANGED <<graph, installed>>
       \/ \E rpc \in [InventoryPools -> BotResponses] :
             /\ graph' = update_from_mint_pool_data(
                             graph, initialize_pools_from_markets(tick_markets), rpc)
             /\ installed' = update_from_mint_pool_data(
                                 EmptyGraph, initialize_pools_from_markets(tick_markets), rpc)
             /\ pc' = "ingested"
             /\ log' = "Initialized mints from markets"
    /\ UNCHANGED <<tick, actionable, dargs, cycles, oargs, ocycle, oresult>>
    /\ UNCHANGED <<discVars, markets, config, tick_markets, bg, file, chainVars, auxVars>>

\* Pool initialization and the graph build (bot.rs 105-127): an Err of
\* initialize_pools_from_markets ends the tick.
TickBuild ==
    /\ pc = "snapshotted"
    /\ \/ /\ pc' = "idle"
          /\ log' = "Failed to initialize pools"
          /\ UNCHANGED <<graph, installed>>
       \/ \E rpc \in [InventoryPools -> BotResponses] :
             /\ graph' = update_from_mint_pool_data(
                             graph, initialize_pools_from_markets(tick_markets), rpc)
             /\ installed' = update_from_mint_pool_data(
                                 EmptyGraph, initialize_pools_from_markets(tick_markets), rpc)
             /\ pc' = "ingested"
             /\ log' = "Initialized mints from markets"
    /\ UNCHANGED <<tick, actionable, dargs, cycles, oargs, ocycle, oresult>>
    /\ UNCHANGED <<discVars, markets, config, tick_markets, bg, file, chainVars, auxVars>>

\* run_background_discovery, the discovery (bot.rs 171-176, 190-192).
BackgroundDiscover ==
    /\ bg = "sleeping"
    /\ \/ \E results \in Snapshots :
             /\ output' = results
             /\ bg' = "discovered"
             /\ UNCHANGED log
       \/ /\ log' = "Background discovery failed"
          /\ UNCHANGED <<output, bg>>
    /\ UNCHANGED <<engineVars, discRest, markets, config, tick_markets, file, chainVars, auxVars>>

\* run_background_discovery, the save (bot.rs 177-181).
BackgroundSave ==
    /\ bg = "discovered"
    /\ \E ok \in BOOLEAN :
          /\ file' \in save_results(file, output, ok)
          /\ bg' = IF ok THEN "saved" ELSE "sleeping"
          /\ log' = IF ok THEN "saved" ELSE "Failed to save discovery results"
    /\ UNCHANGED <<engineVars, discVars, markets, config, tick_markets, chainVars, auxVars>>

\* A variant of BackgroundReplace that also empties the price graph.
BackgroundReplace_ClearsGraph ==
    /\ bg = "saved"
    /\ markets' = convert_to_markets(output)
    /\ bg' = "sleeping"
    /\ log' = "Markets updated"
    /\ graph' = EmptyGraph
    /\ UNCHANGED <<installed, tick, actionable, pc, dargs, cycles, oargs, ocycle, oresult>>
    /\ UNCHANGED <<discVars, config, tick_markets, file, chainVars, auxVars>>

\* run_background_discovery, the replacement under the write lock
\* (bot.rs 183-188).
BackgroundReplace ==
    /\ bg = "saved"
    /\ markets' = convert_to_markets(output)
    /\ bg' = "sleeping"
    /\ log' = "Markets updated"
    /\ UNCHANGED <<engineVars, discVars, config, tick_markets, file, chainVars, auxVars>>

BotNext ==
    \/ BootDiscovery
    \/ BootStatic
    \/ TickStart
    \/ TickBuild
    \/ TickDetect
    \/ TickOptimize
    \/ BackgroundDiscover
    \/ BackgroundSave
    \/ BackgroundReplace

BotSpec == BotInit /\ [][BotNext]_vars

(***************************************************************************)
(* IngestSpec: the ingestion step of the main loop (bot.rs 124-127) over   *)
(* an inventory of the families whose price is decoded from the pool's own *)
(* state account: one Meteora DLMM pair, one Orca whirlpool and one        *)
(* Raydium CLMM pool.  accounts[pool] is what get_account answers for the  *)
(* pool in the tick: fetch = FALSE when the account is missing, layout =   *)
(* FALSE when its data does not decode.  sqrt_price is the Q64.64 value in *)
(* units of 2^62 and liquidity the u128 value in units of 10^9, so the     *)
(* f64 results below are exact.                                            *)
(***************************************************************************)
NoState == [mint_0 |-> 0, mint_1 |-> 0, sqrt_price |-> 0, liquidity |-> 0,
            bin_step |-> 0, active_id |-> 0]
Missing == [fetch |-> FALSE, layout |-> FALSE, state |-> NoState]
Malformed == [fetch |-> TRUE, layout |-> FALSE, state |-> NoState]
Account(state) == [fetch |-> TRUE, layout |-> TRUE, state |-> state]

\* PoolState::load_checked, Whirlpool::try_deserialize and
\* DlmmInfo::load_checked: the decoded state, or an error for a malformed
\* layout.
DecodeErr == [NoState EXCEPT !.mint_0 = 0 - 1]
load_checked(account) == IF account.layout THEN account.state ELSE DecodeErr

\* PriceGraph::calculate_clmm_price: (sqrt_price_x64 / 2^64)^2.
calculate_clmm_price(sqrt_price) == Fin(sqrt_price * sqrt_price, 16)

\* PriceGraph::estimate_clmm_liquidity: liquidity * price / 1e9 * 200.
estimate_clmm_liquidity(pool_state) ==
    Mul(Fin(pool_state.liquidity * 200, 1), calculate_clmm_price(pool_state.sqrt_price))

\* f64::powi for the exponents of the model.
RECURSIVE powi(_, _)
powi(x, n) ==
    IF n = 0 THEN One
    ELSE IF n < 0 THEN Recip(powi(x, 0 - n))
    ELSE Mul(x, powi(x, n - 1))

\* The two add_edge calls every branch makes for one pool: a -> b at price
\* ab, then b -> a at price ba.
AddBoth(g, a, b, pk, dex, ab, ba, liq, fee) ==
    add_edge(add_edge(g, a, b, PoolEdge(pk, dex, ab, liq, fee, b)),
             b, a, PoolEdge(pk, dex, ba, liq, fee, a))

\* The progress of one update_from_mint_pool_data call: the graph so far,
\* and whether a panic is unwinding the call.
Progress(g, panicked) == [edges |-> g, panicked |-> panicked]

\* One turn of process_dlmm_pools' loop (graph.rs 281-343): a failed fetch
\* and a failed decode are logged and the pair is passed over.
DlmmStep(st, pair, account) ==
    LET info == load_checked(account)
        price == powi(Fin(10000 + info.bin_step, 10000), info.active_id)
        liquidity_usd ==
            Fin((IF info.active_id < 0 THEN 0 - info.active_id ELSE info.active_id) * 1000, 1)
    IN  IF ~account.fetch \/ info = DecodeErr THEN st
        ELSE IF pair.token_mint = info.mint_0
        THEN Progress(AddBoth(st.edges, info.mint_0, info.mint_1, pair.pool,
                              "MeteoraDlmm", price, Recip(price), liquidity_usd, 5), FALSE)
        ELSE Progress(AddBoth(st.edges, info.mint_1, info.mint_0, pair.pool,
                              "MeteoraDlmm", Recip(price), price, liquidity_usd, 5), FALSE)

\* The turn shared by process_whirlpool_pools (graph.rs 127-171, Whirlpool,
\* 2 bps) and process_raydium_clmm_pools (graph.rs 73-122, RaydiumClmm,
\* 5 bps): get_account(..).unwrap() panics when the fetch fails; a failed
\* decode passes the pool over.
SqrtPriceStep(st, pool, account, dex, fee, liquidity_usd) ==
    LET pool_state == load_checked(account)
        price == calculate_clmm_price(pool_state.sqrt_price)
    IN  IF ~account.fetch THEN Progress(st.edges, TRUE)
        ELSE IF pool_state = DecodeErr THEN st
        ELSE IF pool.token_mint = pool_state.mint_0
        THEN Progress(AddBoth(st.edges, pool.token_mint, pool_state.mint_1, pool.pool,
                              dex, price, Recip(price), liquidity_usd, fee), FALSE)
        ELSE Progress(AddBoth(st.edges, pool.token_mint, pool_state.mint_0, pool.pool,
                              dex, Recip(price), price, liquidity_usd, fee), FALSE)

WhirlpoolStep(st, pool, account) ==
    SqrtPriceStep(st, pool, account, "Whirlpool", 2, Fin(account.state.liquidity * 200, 1))

ClmmStep(st, pool, account) ==
    SqrtPriceStep(st, pool, account, "RaydiumClmm", 5, estimate_clmm_liquidity(account.state))

FamilyStep(family, st, pool, account) ==
    CASE family = "dlmm" -> DlmmStep(st, pool, account)
      [] family = "whirlpool" -> WhirlpoolStep(st, pool, account)
      [] family = "clmm" -> ClmmStep(st, pool, account)

\* `for pool in &pool_data.<family>`: a panic ends the loop.
RECURSIVE ProcessStatePools(_, _, _, _, _)
ProcessStatePools(family, st, pools, i, rpc) ==
    IF st.panicked \/ i > Len(pools) THEN st
    ELSE ProcessStatePools(family, FamilyStep(family, st, pools[i], rpc[pools[i].pool]),
                           pools, i + 1, rpc)

process_dlmm_pools(st, pool_data, rpc) ==
    ProcessStatePools("dlmm", st, pool_data.dlmm_pairs, 1, rpc)

process_whirlpool_pools(st, pool_data, rpc) ==
    ProcessStatePools("whirlpool", st, pool_data.whirlpool_pools, 1, rpc)

process_raydium_clmm_pools(st, pool_data, rpc) ==
    ProcessStatePools("clmm", st, pool_data.raydium_clmm_pools, 1, rpc)

\* PriceGraph::update_from_mint_pool_data for an inventory of these three
\* families (graph.rs 27-29; the lists of the other families are empty).
update_from_state_accounts(g, pool_data, rpc) ==
    process_raydium_clmm_pools(
        process_whirlpool_pools(
            process_dlmm_pools(Progress(g, FALSE), pool_data, rpc), pool_data, rpc),
        pool_data, rpc)

\* The inventory: the token's DLMM pair (account 7), whirlpool (8) and
\* CLMM pool (9).
StateInventory ==
    [mint |-> TokenMint,
     dlmm_pairs |-> <<[pool |-> 7, token_mint |-> TokenMint]>>,
     whirlpool_pools |-> <<[pool |-> 8, token_mint |-> TokenMint]>>,
     raydium_clmm_pools |-> <<[pool |-> 9, token_mint |-> TokenMint]>>]

StatePools(pool_data) ==
    {pool_data.dlmm_pairs[i].pool : i \in 1 .. Len(pool_data.dlmm_pairs)}
    \cup {pool_data.whirlpool_pools[i].pool : i \in 1 .. Len(pool_data.whirlpool_pools)}
    \cup {pool_data.raydium_clmm_pools[i].pool : i \in 1 .. Len(pool_data.raydium_clmm_pools)}

\* The decoded states: the token against SOL in either order, a price of
\* 1/4 or of 1.01, with and without liquidity (process_dlmm_pools reads no
\* liquidity: its pairs are given some).
State(mint_0, mint_1, sqrt_price, liquidity, bin_step, active_id) ==
    [mint_0 |-> mint_0, mint_1 |-> mint_1, sqrt_price |-> sqrt_price,
     liquidity |-> liquidity, bin_step |-> bin_step, active_id |-> active_id]

DlmmAnswers ==
    {Missing, Malformed, Account(State(TokenMint, SolMint, 0, 5, 100, 1)),
     Account(State(SolMint, TokenMint, 0, 5, 100, 0 - 1))}

SqrtPriceAnswers ==
    {Missing, Malformed, Account(State(TokenMint, SolMint, 2, 0, 0, 0)),
     Account(State(SolMint, TokenMint, 2, 5, 0, 0))}

AccountAnswers ==
    {[p \in StatePools(StateInventory) |->
         CASE p = 7 -> d [] p = 8 -> w [] p = 9 -> c] :
       d \in DlmmAnswers, w \in SqrtPriceAnswers, c \in SqrtPriceAnswers}

IngestInit == EngineIdle /\ DiscIdle /\ BotIdle

\* `for pool_data in initial_pool_data { graph.update_from_mint_pool_data }`
\* (bot.rs 124-127).  Nothing catches a panic: it unwinds run_bot.
IngestTick ==
    /\ pc = "idle"
    /\ tick < MaxTicks
    /\ \E rpc \in AccountAnswers :
          /\ accounts' = rpc
          /\ graph' = update_from_state_accounts(graph, StateInventory, rpc).edges
          /\ installed' = update_from_state_accounts(EmptyGraph, StateInventory, rpc).edges
          /\ pc' = IF update_from_state_accounts(graph, StateInventory, rpc).panicked
                   THEN "panicked" ELSE "idle"
    /\ tick' = tick + 1
    /\ UNCHANGED <<actionable, dargs, cycles, oargs, ocycle, oresult>>
    /\ UNCHANGED <<discVars, botVars, auxVars>>

IngestNext == IngestTick

IngestSpec == IngestInit /\ [][IngestNext]_vars

(***************************************************************************)
(* ForkSpec: the ingestion of the pools of the CLMM forks (PancakeSwap,    *)
(* Byreal).  An account carries its owner; the forks' program ids are      *)
(* only compared with it.                                                  *)
(***************************************************************************)
pancakeswap_program_id == "PancakeSwap program"
byreal_program_id == "Byreal program"
raydium_clmm_program_id == "Raydium CLMM program"

OwnedAccount(owner, account) ==
    [fetch |-> account.fetch, layout |-> account.layout, state |-> account.state,
     owner |-> owner]

\* A variant of ForkStep without the owner test.
ForkStep_NoOwnerTest(st, pool, account, program_id, dex) ==
    SqrtPriceStep(st, pool, [account EXCEPT !.fetch = TRUE], dex, 5,
                  estimate_clmm_liquidity(account.state))

\* One turn of the loop of process_pancakeswap_pools (graph.rs 564-622) and
\* of process_byreal_pools (graph.rs 627-685): a failed fetch, an owner
\* other than the fork's program and a failed decode are logged and the
\* pool is passed over; otherwise the edges of a CLMM pool at 5 bps.
ForkStep(st, pool, account, program_id, dex) ==
    IF ~account.fetch \/ account.owner # program_id THEN st
    ELSE SqrtPriceStep(st, pool, account, dex, 5, estimate_clmm_liquidity(account.state))

RECURSIVE ProcessForkPools(_, _, _, _, _, _)
ProcessForkPools(st, pools, i, rpc, program_id, dex) ==
    IF i > Len(pools) THEN st
    ELSE ProcessForkPools(ForkStep(st, pools[i], rpc[pools[i].pool], program_id, dex),
                          pools, i + 1, rpc, program_id, dex)

process_pancakeswap_pools(st, pool_data, rpc) ==
    ProcessForkPools(st, pool_data.pancakeswap_pools, 1, rpc, pancakeswap_program_id,
                     "PancakeSwap")

process_byreal_pools(st, pool_data, rpc) ==
    ProcessForkPools(st, pool_data.byreal_pools, 1, rpc, byreal_program_id, "Byreal")

\* PriceGraph::update_from_mint_pool_data for an inventory of the two forks
\* (graph.rs 36-37; the lists of the other families are empty).
update_from_fork_accounts(g, pool_data, rpc) ==
    process_byreal_pools(process_pancakeswap_pools(Progress(g, FALSE), pool_data, rpc),
                         pool_data, rpc)

\* The inventory: two PancakeSwap pools of the token (accounts 10, 11) and
\* a Byreal pool (12).
ForkInventory ==
    [mint |-> TokenMint,
     pancakeswap_pools |-> <<[pool |-> 10, token_mint |-> TokenMint],
                             [pool |-> 11, token_mint |-> TokenMint]>>,
     byreal_pools |-> <<[pool |-> 12, token_mint |-> TokenMint]>>]

ForkPools(pool_data) ==
    {pool_data.pancakeswap_pools[i].pool : i \in 1 .. Len(pool_data.pancakeswap_pools)}
    \cup {pool_data.byreal_pools[i].pool : i \in 1 .. Len(pool_data.byreal_pools)}

\* The program a pool of the inventory belongs to.
ForkProgram(pool_data, p) ==
    IF \E i \in DOMAIN pool_data.byreal_pools : pool_data.byreal_pools[i].pool = p
    THEN byreal_program_id ELSE pancakeswap_program_id

\* What get_account answers for a fork pool: nothing, a malformed account
\* of the fork, or a CLMM pool state owned by the fork, by the other fork
\* or by the CLMM program itself.
ForkAnswers ==
    {OwnedAccount(pancakeswap_program_id, Missing),
     OwnedAccount(pancakeswap_program_id, Malformed),
     OwnedAccount(pancakeswap_program_id, Account(State(TokenMint, SolMint, 2, 5, 0, 0))),
     OwnedAccount(byreal_program_id, Account(State(SolMint, TokenMint, 2, 5, 0, 0))),
     OwnedAccount(raydium_clmm_program_id, Account(State(TokenMint, SolMint, 2, 5, 0, 0)))}

ForkInit == EngineIdle /\ DiscIdle /\ BotIdle

\* `for pool_data in initial_pool_data { graph.update_from_mint_pool_data }`
\* (bot.rs 124-127) on the inventory of fork pools.
ForkTick ==
    /\ pc = "idle"
    /\ tick < MaxTicks
    /\ \E rpc \in [ForkPools(ForkInventory) -> ForkAnswers] :
          /\ accounts' = rpc
          /\ graph' = update_from_fork_accounts(graph, ForkInventory, rpc).edges
          /\ installed' = update_from_fork_accounts(EmptyGraph, ForkInventory, rpc).edges
    /\ tick' = tick + 1
    /\ UNCHANGED <<pc, actionable, dargs, cycles, oargs, ocycle, oresult>>
    /\ UNCHANGED <<discVars, botVars, auxVars>>

ForkNext == ForkTick

ForkSpec == ForkInit /\ [][ForkNext]_vars

(***************************************************************************)
(* VaultSpec: the ingestion step of the main loop (bot.rs 124-127) for a   *)
(* mint whose inventory is its Raydium V4 pool alone, or the V4 pool and   *)
(* the CP pool.  accounts[pool] is what the pool's vault fetches answer in *)
(* the tick.                                                               *)
(***************************************************************************)
VaultInventories ==
    {[mint |-> TokenMint, raydium_pools |-> <<V4Pool>>, raydium_cp_pools |-> <<>>], Inventory}

VaultPools(pool_data) ==
    {pool_data.raydium_pools[i] : i \in 1 .. Len(pool_data.raydium_pools)}
    \cup {pool_data.raydium_cp_pools[i] : i \in 1 .. Len(pool_data.raydium_cp_pools)}

VaultInit == EngineIdle /\ DiscIdle /\ BotIdle

VaultTick ==
    /\ pc = "idle"
    /\ tick < MaxTicks
    /\ \E pool_data \in VaultInventories :
          \E rpc \in [VaultPools(pool_data) -> Responses] :
             /\ accounts' = rpc
             /\ graph' = update_from_mint_pool_data(graph, pool_data, rpc)
             /\ installed' = update_from_mint_pool_data(EmptyGraph, pool_data, rpc)
    /\ tick' = tick + 1
    /\ UNCHANGED <<actionable, pc, dargs, cycles, oargs, ocycle, oresult>>
    /\ UNCHANGED <<discVars, botVars, auxVars>>

VaultNext == VaultTick

VaultSpec == VaultInit /\ [][VaultNext]_vars

(***************************************************************************)
(* MainSpec: main's update loop (main.rs 63-114) with the Ctrl+C task.     *)
(* Mints are 1, 2, 3; a pool is named by its address.  The Instant         *)
(* last_updated of a PoolInfo is left out.                                 *)
(***************************************************************************)
MaxMainTicks == 2
MainMinLiquidityUsd == 50000

PoolInfo(address, dex, token_a, token_b, price, liquidity_usd, fee_bps) ==
    [address |-> address, dex |-> dex, token_a |-> token_a, token_b |-> token_b,
     price |-> price, liquidity_usd |-> liquidity_usd, fee_bps |-> fee_bps]

PathEdge(pool, price) ==
    [pool_address |-> pool.address, dex |-> pool.dex, price |-> price,
     liquidity_usd |-> pool.liquidity_usd, fee_bps |-> pool.fee_bps]

\* HashMap::insert and DiGraphMap::add_edge: the value under key k is set,
\* replacing the one that was there.
Insert(f, k, v) == [x \in DOMAIN f \cup {k} |-> IF x = k THEN v ELSE f[x]]

\* PetgraphEngine::add_or_update_pool.
add_or_update_pool(e, pool) ==
    LET reverse == IF pool.price[1] # "nan" /\ ~IsZero(pool.price)
                   THEN Recip(pool.price) ELSE Fin(0, 1)
    IN  [nodes |-> e.nodes \cup {pool.token_a, pool.token_b},
         edges |-> Insert(Insert(e.edges, <<pool.token_a, pool.token_b>>,
                                 PathEdge(pool, pool.price)),
                          <<pool.token_b, pool.token_a>>, PathEdge(pool, reverse)),
         pool_index |-> Insert(e.pool_index, pool.address, <<pool.token_a, pool.token_b>>),
         pools |-> Insert(e.pools, pool.address, pool)]

\* MarketOrchestrator::fetch_all_pools: the pools of the fetchers that
\* answered, in the fetchers' order; a failing fetcher is logged.
RECURSIVE fetch_all_pools(_, _)
fetch_all_pools(answers, n) ==
    IF n = 0 THEN <<>>
    ELSE fetch_all_pools(answers, n - 1)
         \o (IF answers[n].ok THEN answers[n].pools ELSE <<>>)

\* The tick branch from the fetch on (main.rs 84-107): the pools at or
\* above the liquidity threshold are added in order.
RECURSIVE UpdateGraph(_, _, _)
UpdateGraph(e, pools, i) ==
    IF i > Len(pools) THEN e
    ELSE UpdateGraph(IF pools[i].liquidity_usd >= MainMinLiquidityUsd
                     THEN add_or_update_pool(e, pools[i]) ELSE e,
                     pools, i + 1)

\* What the three fetchers answer in a tick: the Raydium and the Meteora
\* fetcher know a pool of the pair (1, 2), the Orca fetcher one of (2, 3).
Fetched(pools) == [ok |-> TRUE, pools |-> pools]
FetchErr == [ok |-> FALSE, pools |-> <<>>]
FetcherAnswers ==
    {<<r, m, o>> :
       r \in {FetchErr, Fetched(<<>>),
              Fetched(<<PoolInfo(4, "Raydium", 1, 2, Fin(2, 1), 100000, 25)>>),
              Fetched(<<PoolInfo(4, "Raydium", 1, 2, Fin(0, 1), 100000, 25)>>)},
       m \in {FetchErr, Fetched(<<PoolInfo(5, "Meteora", 1, 2, Fin(3, 1), 100000, 5)>>)},
       o \in {Fetched(<<>>), Fetched(<<PoolInfo(6, "Orca", 2, 3, One, 10000, 2)>>),
              Fetched(<<PoolInfo(6, "Orca", 2, 3, One, 50000, 2)>>)}}

\* main has built the engine, spawned the Ctrl+C task and reached the loop.
MainInit ==
    /\ EngineCore /\ DiscIdle /\ BotIdle /\ CallIdle
    /\ mpc = "select"
    /\ shutdown = "armed"
    /\ mticks = 0
    /\ graph_engine = NoEngine

\* The spawned task (main.rs 67-71): ctrl_c() completes and it calls
\* notify_waiters(), which wakes the Notified futures that exist and stores
\* no permit.  The loop holds a Notified future only while it waits in
\* select!.
CtrlC ==
    /\ mpc \in {"select", "body"}
    /\ shutdown = "armed"
    /\ shutdown' = IF mpc = "select" THEN "notified" ELSE "lost"
    /\ UNCHANGED <<mpc, mticks, graph_engine, call>>
    /\ UNCHANGED <<engineVars, discVars, botVars, chainVars>>

\* select! takes the ticker branch (main.rs 80-82); the Notified future of
\* this turn is dropped, and a wake-up it had received with it.
MainTick ==
    /\ mpc = "select"
    /\ mpc' = "body"
    /\ mticks' = IF mticks < MaxMainTicks THEN mticks + 1 ELSE mticks
    /\ shutdown' = IF shutdown = "notified" THEN "lost" ELSE shutdown
    /\ UNCHANGED <<graph_engine, call>>
    /\ UNCHANGED <<engineVars, discVars, botVars, chainVars>>

\* The rest of the ticker branch (main.rs 84-107), back to select!.
MainBody ==
    /\ mpc = "body"
    /\ \E answers \in FetcherAnswers :
          graph_engine' = UpdateGraph(graph_engine, fetch_all_pools(answers, 3), 1)
    /\ mpc' = "select"
    /\ UNCHANGED <<shutdown, mticks, call>>
    /\ UNCHANGED <<engineVars, discVars, botVars, chainVars>>

\* select! takes the shutdown branch (main.rs 109-112): break.
MainShutdown ==
    /\ mpc = "select"
    /\ shutdown = "notified"
    /\ mpc' = "stopped"
    /\ UNCHANGED <<shutdown, mticks, graph_engine, call>>
    /\ UNCHANGED <<engineVars, discVars, botVars, chainVars>>

MainNext == CtrlC \/ MainTick \/ MainBody \/ MainShutdown

MainSpec == MainInit /\ [][MainNext]_vars

\* The runtime runs a task that can make progress: the interval fires, the
\* fetches return, a woken select! is polled.  Nothing obliges the signal.
MainLiveSpec ==
    MainSpec /\ WF_vars(MainTick) /\ WF_vars(MainBody) /\ WF_vars(MainShutdown)

(***************************************************************************)
(* PetgraphSpec: PetgraphEngine under any sequence of add_or_update_pool,  *)
(* remove_pool and clear.  The DiGraphMap holds one edge for an ordered    *)
(* pair of tokens.                                                         *)
(***************************************************************************)
\* HashMap::remove and DiGraphMap::remove_edge: the key is gone, if it was
\* there.
Remove(f, k) == [x \in DOMAIN f \ {k} |-> f[x]]

\* PetgraphEngine::remove_pool: the pool's entry of the index names the
\* token pair whose two edges are removed.
remove_pool(e, address) ==
    IF address \notin DOMAIN e.pool_index THEN e
    ELSE [nodes |-> e.nodes,
          edges |-> Remove(Remove(e.edges, e.pool_index[address]),
                           <<e.pool_index[address][2], e.pool_index[address][1]>>),
          pool_index |-> Remove(e.pool_index, address),
          pools |-> Remove(e.pools, address)]

\* PetgraphEngine::clear.
clear(e) == NoEngine

\* The pools handed to the engine: the addresses 4 and 5 on the token pair
\* (1, 2), in either order, or on (2, 3), at a price of 2 or of 0.
EnginePoolAddresses == {4, 5}
EnginePools ==
    {PoolInfo(address, "Raydium", tokens[1], tokens[2], price, 100000, 25) :
        address \in EnginePoolAddresses, tokens \in {<<1, 2>>, <<2, 1>>, <<2, 3>>},
        price \in {Fin(2, 1), Fin(0, 1)}}

PetgraphInit == EngineIdle /\ DiscIdle /\ BotIdle

AddOrUpdatePool ==
    /\ \E pool \in EnginePools : graph_engine' = add_or_update_pool(graph_engine, pool)
    /\ UNCHANGED <<mpc, shutdown, mticks, call>>
    /\ UNCHANGED <<engineVars, discVars, botVars, chainVars>>

RemovePool ==
    /\ \E address \in EnginePoolAddresses :
          graph_engine' = remove_pool(graph_engine, address)
    /\ UNCHANGED <<mpc, shutdown, mticks, call>>
    /\ UNCHANGED <<engineVars, discVars, botVars, chainVars>>

Clear ==
    /\ graph_engine' = clear(graph_engine)
    /\ UNCHANGED <<mpc, shutdown, mticks, call>>
    /\ UNCHANGED <<engineVars, discVars, botVars, chainVars>>

PetgraphNext == AddOrUpdatePool \/ RemovePool \/ Clear

PetgraphSpec == PetgraphInit /\ [][PetgraphNext]_vars

(***************************************************************************)
(* PureSpec: the pool-layout decoders of dex/, parse_token_amount and the  *)
(* simulator, each applied to inputs drawn from bounded sets.  An account  *)
(* data buffer is the sequence of its bytes.  A result is a value, an      *)
(* error value or a panic.                                                 *)
(***************************************************************************)
Ok(value) == [kind |-> "ok", value |-> value]
Err(message) == [kind |-> "err", value |-> message]
Panic(message) == [kind |-> "panic", value |-> message]

\* slice_to_pubkey: data[start..end] panics when end is past the buffer.
slice_to_pubkey(data, start, end) ==
    IF end > Len(data) THEN Panic("range end index out of range for slice")
    ELSE Ok(SubSeq(data, start + 1, end))

\* The struct built from the slices at the given offsets; the first slice
\* that panics unwinds the decoder.
Decoded(data, offsets) ==
    LET slices == [f \in DOMAIN offsets |-> slice_to_pubkey(data, offsets[f], offsets[f] + 32)]
    IN  IF \E f \in DOMAIN offsets : slices[f].kind = "panic"
        THEN Panic("range end index out of range for slice")
        ELSE Ok([f \in DOMAIN offsets |-> slices[f].value])

\* RaydiumAmmInfo::load_checked (amm_info.rs 26-42).
RaydiumAmmInfo_load_checked(data) ==
    IF Len(data) < 432 + 32 THEN Err("Invalid data length for RaydiumAmmInfo")
    ELSE Decoded(data, [coin_vault |-> 336, pc_vault |-> 368, coin_mint |-> 400,
                        pc_mint |-> 432])

\* RaydiumCpAmmInfo::load_checked (cp_amm_info.rs 34-55).
RaydiumCpAmmInfo_load_checked(data) ==
    IF Len(data) < 296 + 32 THEN Err("Invalid data length for RaydiumCpAmmInfo")
    ELSE Decoded(data, [token_0_vault |-> 72, token_1_vault |-> 104, token_0_mint |-> 168,
                        token_1_mint |-> 200, amm_config |-> 8, observation_key |-> 296])

\* MeteoraDAmmV2Info::load_checked (dammv2_info.rs 20-31): no length test.
MeteoraDAmmV2Info_load_checked(data) ==
    Decoded(data, [base_mint |-> 168, quote_mint |-> 200, base_vault |-> 232,
                   quote_vault |-> 264])

\* SolfiInfo::load_checked (solfi/info.rs 20-32): no length test.
SolfiInfo_load_checked(data) ==
    Decoded(data, [base_mint |-> 2664, quote_mint |-> 2696, base_vault |-> 2736,
                   quote_vault |-> 2768])

Decoders == {"RaydiumAmmInfo", "RaydiumCpAmmInfo", "MeteoraDAmmV2Info", "SolfiInfo"}

load_checked_of(decoder, data) ==
    CASE decoder = "RaydiumAmmInfo" -> RaydiumAmmInfo_load_checked(data)
      [] decoder = "RaydiumCpAmmInfo" -> RaydiumCpAmmInfo_load_checked(data)
      [] decoder = "MeteoraDAmmV2Info" -> MeteoraDAmmV2Info_load_checked(data)
      [] decoder = "SolfiInfo" -> SolfiInfo_load_checked(data)

\* u64::from_le_bytes, for words below 2^31.
RECURSIVE from_le_bytes(_, _)
from_le_bytes(bytes, i) ==
    IF i > Len(bytes) THEN 0 ELSE bytes[i] + 256 * from_le_bytes(bytes, i + 1)

\* PriceGraph::parse_token_amount (graph.rs 201-209): copy_from_slice of
\* data[64..72] panics when the buffer ends before byte 72.
parse_token_amount(data) ==
    IF Len(data) < 64 THEN Ok(0)
    ELSE IF 72 > Len(data) THEN Panic("range end index 72 out of range for slice")
    ELSE Ok(from_le_bytes(SubSeq(data, 65, 72), 1))

\* Simulator::simulate_transaction (simulate.rs 12-37).
simulate_transaction(cycle) ==
    IF cycle.estimated_profit_lamports > 0
    THEN Ok([success |-> TRUE, actual_profit_lamports |-> cycle.estimated_profit_lamports,
             cu_consumed |-> 400000, error |-> ""])
    ELSE Ok([success |-> FALSE, actual_profit_lamports |-> 0, cu_consumed |-> 0,
             error |-> "No profit detected"])

\* Simulator::simulate_with_sdk (simulate.rs 44-47): unimplemented!().
simulate_with_sdk(cycle) ==
    Panic("not implemented: SDK simulation not available until Phase 2")

\* Buffers of the lengths around every decoder's offsets, filled with bytes
\* that differ from one offset to the next.
LayoutLengths == {0, 31, 199, 295, 296, 327, 328, 463, 464, 465, 2799, 2800, 2801}
LayoutBuffer(len, seed) == [i \in 1 .. len |-> (seed + i) % 251]
LayoutBuffers == {LayoutBuffer(len, seed) : len \in LayoutLengths, seed \in {0, 7}}

\* Token accounts of every length from 0 to 75 and of the SPL length 165:
\* the amount word, 0xFF before it and after it.
VaultLengths == 0 .. 75 \cup {165}
VaultAmounts == {<<0, 0, 0, 0, 0, 0, 0, 0>>, <<1, 0, 0, 0, 0, 0, 0, 0>>,
                 <<64, 66, 15, 0, 0, 0, 0, 0>>}
VaultBuffer(len, word) ==
    [i \in 1 .. len |-> IF i \in 65 .. 72 THEN word[i - 64] ELSE 255]
VaultBuffers == {VaultBuffer(len, word) : len \in VaultLengths, word \in VaultAmounts}

SimulatedCycles ==
    {[legs |-> <<>>, total_profit_bps |-> b, estimated_profit_lamports |-> p, total_hops |-> 0] :
        b \in {0, 100}, p \in {0, 1, 5000}}

PureInit == EngineCore /\ DiscIdle /\ BotIdle /\ MainIdle /\ CallIdle

Called(fn, args, result) == [fn |-> fn, args |-> args, result |-> result]

DecodeStep ==
    /\ \E decoder \in Decoders, data \in LayoutBuffers :
          call' = Called(decoder, data, load_checked_of(decoder, data))
    /\ UNCHANGED <<engineVars, discVars, botVars, chainVars, mainVars>>

ParseAmountStep ==
    /\ \E data \in VaultBuffers :
          call' = Called("parse_token_amount", data, parse_token_amount(data))
    /\ UNCHANGED <<engineVars, discVars, botVars, chainVars, mainVars>>

SimulateStep ==
    /\ \E cycle \in SimulatedCycles :
          \/ call' = Called("simulate_transaction", cycle, simulate_transaction(cycle))
          \/ call' = Called("simulate_with_sdk", cycle, simulate_with_sdk(cycle))
    /\ UNCHANGED <<engineVars, discVars, botVars, chainVars, mainVars>>

PureNext == DecodeStep \/ ParseAmountStep \/ SimulateStep

PureSpec == PureInit /\ [][PureNext]_vars

(***************************************************************************)
(* Properties of find_negative_cycles.                                     *)
(***************************************************************************)
Returned == {cycles[i] : i \in 1 .. Len(cycles)}

\* The edges of the graph as <<from_mint, edge>>.
EdgeSet(g) == UNION {{<<k, g[k][i]>> : i \in 1 .. Len(g[k])} : k \in Pubkeys}

\* The directed cycles of n edges through start: each edge leaves the mint
\* the previous one arrives at, the last one arrives at start.
ClosedChains(g, start, n) ==
    {s \in [1 .. n -> EdgeSet(g)] :
        /\ s[1][1] = start
        /\ s[n][2].dst = start
        /\ \A i \in 1 .. n - 1 : s[i][2].dst = s[i + 1][1]}

HasProfitableCycle(g, a) ==
    \E n \in 1 .. a.max_hops :
        /\ n >= a.min_hops
        /\ \E s \in ClosedChains(g, a.start_mint, n) :
              /\ Lt(One, TotalPrice(s, n))
              /\ ProfitBps(TotalPrice(s, n)) > a.min_profit_bps

BotArgs(a, mp) ==
    /\ a.start_mint = SolMint
    /\ a.min_hops = BotMinHops
    /\ a.max_hops = BotMaxHops
    /\ a.min_profit_bps = mp

\* C1: a cycle through start_mint with price product > 1, hop count within
\* [min_hops, max_hops] and profit_bps > min_profit_bps gives a non-empty
\* result, and scenario 1 (A->B 1.010, B->C 1.010, C->A 1.000; 2, 5, 50)
\* gives exactly one cycle, of 201 bps.
C1_ProfitableCycleReported ==
    pc = "detected" =>
        /\ HasProfitableCycle(graph, dargs) => cycles # <<>>
        /\ (graph \in {ScenarioGraph(One, b) : b \in BOOLEAN}
            /\ BotArgs(dargs, BotMinProfitBps))
           => (Len(cycles) = 1 /\ cycles[1].total_profit_bps = 201)

\* The price product of the edges a cycle's legs realize, as n/d.
RECURSIVE WalkNum(_, _)
WalkNum(w, i) == IF i = 0 THEN 1 ELSE WalkNum(w, i - 1) * w[i][2].price[2]
RECURSIVE WalkDen(_, _)
WalkDen(w, i) == IF i = 0 THEN 1 ELSE WalkDen(w, i - 1) * w[i][2].price[3]

\* C3: every returned cycle has a price product above 1 and a
\* total_profit_bps above min_profit_bps, whatever min_profit_bps is, and
\* scenario 2 (C->A 0.995) with min_profit_bps = 200 returns nothing.
C3_ReturnedCyclesProfitable ==
    pc = "detected" =>
        /\ \A c \in Returned :
              /\ WalkNum(c.walk, Len(c.walk)) > WalkDen(c.walk, Len(c.walk))
              /\ c.total_profit_bps > dargs.min_profit_bps
        /\ (graph \in {ScenarioGraph(Fin(995, 1000), b) : b \in BOOLEAN}
            /\ BotArgs(dargs, 200))
           => cycles = <<>>

\* C4: every returned cycle has min_hops <= total_hops <= max_hops and
\* total_hops legs.
C4_HopBounds ==
    pc = "detected" =>
        \A c \in Returned :
            /\ dargs.min_hops <= c.total_hops
            /\ c.total_hops <= dargs.max_hops
            /\ c.total_hops = Len(c.legs)

C4_Witness ==
    /\ pc = "detected"
    /\ \E c \in Returned : c.total_hops >= 2 /\ dargs.min_hops = 2

\* The edges the legs realize are edges of the graph.
WalkInGraph(c) ==
    /\ Len(c.walk) = Len(c.legs)
    /\ \A i \in 1 .. Len(c.walk) :
          /\ c.walk[i] \in EdgeSet(graph)
          /\ c.legs[i].pool_pubkey = c.walk[i][2].pool_pubkey
          /\ c.legs[i].dex_type = c.walk[i][2].dex_type

\* C5 as stated: total_profit_bps = floor((P - 1) * 10000), P the product of
\* the prices of the edges the legs realize.
C5_ProfitIsFloor ==
    pc = "detected" =>
        \A c \in Returned :
            LET n == WalkNum(c.walk, Len(c.walk))
                d == WalkDen(c.walk, Len(c.walk))
                b == c.total_profit_bps
            IN  /\ WalkInGraph(c)
                /\ b * d <= (n - d) * 10000
                /\ (n - d) * 10000 < (b + 1) * d

\* C6: the legs of a returned cycle are a closed directed cycle in trading
\* order: each leg's edge arrives at the mint the next leg's edge leaves,
\* and the last arrives where the first leaves.
C6_LegsFormClosedCycle ==
    pc = "detected" =>
        \A c \in Returned :
            /\ Len(c.walk) >= 1
            /\ \A i \in 1 .. Len(c.walk) - 1 : c.walk[i][2].dst = c.walk[i + 1][1]
            /\ c.walk[Len(c.walk)][2].dst = c.walk[1][1]

\* C7: each leg's from_mint is the source mint and its to_mint the
\* destination mint of the edge the leg realizes, and find_edge_in_graph
\* finds that edge for the leg in the same graph.
C7_LegsCarryEdgeMints ==
    pc = "detected" =>
        \A c \in Returned :
            \A i \in 1 .. Len(c.legs) :
                /\ c.legs[i].from_mint = c.walk[i][1]
                /\ c.legs[i].to_mint = c.walk[i][2].dst
                /\ find_edge_in_graph(graph, c.legs[i]) = c.walk[i][2]


(***************************************************************************)
(* Properties of optimize_amount.                                          *)
(***************************************************************************)
\* max_capital * capital_pct / 100 (the capitals of the model are multiples
\* of 100).
Cap(a) == (a.max_capital_lamports \div 100) * a.capital_per_cycle_percent

\* The amounts along the legs when the cycle is simulated at amount a,
\* leg by leg from the graph: the edge under the leg's from_mint with its
\* pool and dex, price p and fee f, slippage s from the pool's liquidity,
\* out = floor(in * p * (10000 - f - s) / 10000).
RECURSIVE ChainOk(_, _, _, _, _)
ChainOk(g, ord, legs, i, amount) ==
    IF i > Len(legs) THEN TRUE
    ELSE LET edge == find_edge_in_graph(g, legs[i])
         IN  /\ edge # NoEdge
             /\ legs[i].amount_in = amount
             /\ legs[i].estimated_amount_out =
                    LegOutput(g, ord, edge, amount, legs[i].pool_pubkey)
             /\ ChainOk(g, ord, legs, i + 1, legs[i].estimated_amount_out)

\* C9: optimize_amount returns none, or an amount whose re-simulation on
\* the same graph has a profit > 0 and >= min_profit; then
\* estimated_profit_lamports is final_amount - amount of that simulation
\* and each leg's amount_in is the previous leg's estimated_amount_out.
C9_OptimizerBracket ==
    pc = "optimized" =>
        \/ oresult = None
        \/ LET profit == simulate_cycle_with_amount(graph, oargs.ord,
                                                    cycles[oargs.index], oresult)
               n == Len(ocycle.legs)
           IN  /\ profit # None
               /\ profit > 0
               /\ profit >= oargs.min_profit_lamports
               /\ ocycle.estimated_profit_lamports = profit
               /\ ChainOk(graph, oargs.ord, ocycle.legs, 1, oresult)
               /\ ocycle.legs[n].estimated_amount_out - oresult = profit

C9_Witness ==
    /\ pc = "optimized"
    /\ oresult # None
    /\ oargs.min_profit_lamports > 0
    /\ ocycle.estimated_profit_lamports > 0

\* C10: none whenever max_capital * capital_pct / 100 < 1_000_000; a
\* returned amount lies in [1_000_000, max_capital * capital_pct / 100];
\* the two-leg cycle with price 1.02, fee 10 bps, liquidity 1_000_000,
\* max_capital 2e9 and capital_pct 20 gets an amount <= 4e8.
C10_AmountWithinCap ==
    pc = "optimized" =>
        /\ Cap(oargs) < 1000000 => oresult = None
        /\ oresult # None => (1000000 <= oresult /\ oresult <= Cap(oargs))
        /\ (/\ graph = OptGraph(Fin(51, 50), 10, BigLiquidity)
            /\ cycles = <<OptCycle(graph, TRUE)>>
            /\ oargs.max_capital_lamports = 2000000000
            /\ oargs.capital_per_cycle_percent = 20)
           => (oresult # None /\ oresult <= 400000000)

C10_Witness ==
    /\ pc = "optimized"
    /\ graph = OptGraph(Fin(51, 50), 10, BigLiquidity)
    /\ cycles = <<OptCycle(graph, TRUE)>>
    /\ oargs.max_capital_lamports = 2000000000
    /\ oargs.capital_per_cycle_percent = 20
    /\ oresult # None


(***************************************************************************)
(* Properties of ingestion.                                                *)
(***************************************************************************)
\* C2: under each source mint the graph holds exactly the edges the most
\* recent ingestion tick installed.
C2_EdgesReplacedPerTick ==
    pc = "ingested" => \A k \in Pubkeys : graph[k] = installed[k]

HasPool(edges, pool, dex) ==
    \E i \in 1 .. Len(edges) : edges[i].pool_pubkey = pool /\ edges[i].dex_type = dex

\* C8: a forward edge (u -> v, p) installed in a tick comes with an inverse
\* edge (v -> u, 1/p) of the same pool and dex installed in that tick, the
\* two prices multiply to at most 1, and in the graph every pool has both
\* directions or neither.
C8_BidirectionalClosure ==
    /\ \A i \in 1 .. Len(installed[TokenMint]) :
          LET f == installed[TokenMint][i]
          IN  /\ f.dst = SolMint
              /\ \E j \in 1 .. Len(installed[SolMint]) :
                    LET r == installed[SolMint][j]
                    IN  /\ r.dst = TokenMint
                        /\ r.pool_pubkey = f.pool_pubkey
                        /\ r.dex_type = f.dex_type
                        /\ r.price = Recip(f.price)
                        /\ Mul(f.price, r.price)[1] = "fin"
                        /\ ~Lt(One, Mul(f.price, r.price))
    /\ \A pool \in InventoryPools, dex \in {"RaydiumV4", "RaydiumCp"} :
          HasPool(graph[TokenMint], pool, dex) <=> HasPool(graph[SolMint], pool, dex)

(***************************************************************************)
(* Properties of run_discovery.                                            *)
(***************************************************************************)
Whitelist ==
    {RAYDIUM_V4_PROGRAM, RAYDIUM_CLMM_PROGRAM, RAYDIUM_CP_PROGRAM, METEORA_DLMM_PROGRAM,
     METEORA_DAMM_PROGRAM, ORCA_WHIRLPOOL_PROGRAM, PUMP_PROGRAM}

\* The tokens and the pools of a snapshot.
SnapshotTokens(snapshot) == {snapshot.tokens[i] : i \in 1 .. Len(snapshot.tokens)}
TokenPools(token) == {token.pools[i] : i \in 1 .. Len(token.pools)}
SnapshotPools(snapshot) == UNION {TokenPools(token) : token \in SnapshotTokens(snapshot)}

\* C11: every pool of the snapshot run_discovery returns has an account
\* whose owner is one of the 7 whitelisted programs, and carries that owner
\* as its program_id; a pair whose owner is unknown or whose account could
\* not be fetched is in no snapshot.
C11_DiscoveryAdmission ==
    dpc = "done" =>
        \A p \in SnapshotPools(output) :
            /\ Chain[p.pool_address] \in Whitelist
            /\ p.program_id = Chain[p.pool_address]

\* The snapshot holds the token whose pair list has a pair of unknown
\* owner and a pair whose account is missing.
C11_Witness ==
    /\ dpc = "done"
    /\ \E token \in SnapshotTokens(output) :
          /\ token.token_address = TokenA
          /\ {p.pool_address : p \in TokenPools(token)} = {"A1", "A2"}

\* C12: no token of the snapshot has wrapped SOL, USDC or USDT as its
\* token_address, whatever ids the feed carried.
C12_DenylistCorrectness ==
    dpc = "done" =>
        \A token \in SnapshotTokens(output) :
            token.token_address \notin {SOL_MINT, USDC_MINT, USDT_MINT}

\* A snapshot with tokens, of a feed that listed the three denied mints.
C12_Witness ==
    /\ dpc = "done"
    /\ Feed(dinput) = FullFeed
    /\ output.token_count > 0

\* The parts of C13 that do not compare with the minima: at least 2 pools
\* a token, in descending liquidity_usd; total_liquidity their sum; the
\* tokens in descending total_liquidity; token_count their number.
Grouped(snapshot) ==
    /\ \A token \in SnapshotTokens(snapshot) :
          /\ Len(token.pools) >= 2
          /\ \A i \in 1 .. Len(token.pools) - 1 :
                token.pools[i].liquidity_usd >= token.pools[i + 1].liquidity_usd
          /\ token.total_liquidity = TotalLiquidity(token.pools, Len(token.pools))
    /\ \A i \in 1 .. Len(snapshot.tokens) - 1 :
          snapshot.tokens[i].total_liquidity >= snapshot.tokens[i + 1].total_liquidity
    /\ snapshot.token_count = Len(snapshot.tokens)

\* C13 as stated: every pool of the snapshot has liquidity_usd and
\* volume_h24 above the configured minima, and the snapshot is grouped and
\* ordered as Grouped says.
C13_FilterAndGroup ==
    dpc = "done" =>
        /\ \A p \in SnapshotPools(output) :
              /\ p.liquidity_usd > dinput.min_liquidity_usd
              /\ p.volume_h24 > dinput.min_volume_h24
        /\ Grouped(output)

\* C13 amended: every pool of the snapshot has liquidity_usd and volume_h24
\* no less than the configured minima (a pool at a minimum is kept), and
\* the snapshot is grouped and ordered as Grouped says.
C13_FilterAndGroupAtLeast ==
    dpc = "done" =>
        /\ \A p \in SnapshotPools(output) :
              /\ p.liquidity_usd >= dinput.min_liquidity_usd
              /\ p.volume_h24 >= dinput.min_volume_h24
        /\ Grouped(output)

\* A snapshot of three tokens, one of them with a pair below the minimum
\* liquidity that was left out.
C13_Witness ==
    /\ dpc = "done"
    /\ output.token_count = 3
    /\ \E token \in SnapshotTokens(output) :
          token.token_address = TokenA /\ token.total_liquidity = 18

\* The tasks that hold a permit.
Holders == {task \in tasks : task.result = Running}

DiscoveryFailures == {"Failed to save discovery results", "Background discovery failed"}

\* C14: the shared market list only ever changes to the complete list of a
\* finished snapshot (or, at bootstrap, to the static list), and a cycle in
\* which the discovery or the save of the snapshot file failed leaves the
\* list as it was.
C14_DiscoveryCycleAtomic ==
    [][/\ markets' # markets =>
            \/ output'.ok /\ markets' = convert_to_markets(output')
            \/ pc = "start" /\ markets' = config.markets
       /\ log' \in DiscoveryFailures => markets' = markets]_vars

\* C15: no tick starts before the bootstrap has ended; with discovery
\* enabled the bootstrap leaves the list converted from the result when
\* run_discovery succeeded and the static list when it failed, and starts
\* the background task; with discovery disabled it leaves the static list
\* and there is never a background task.
C15_BootstrapOrdering ==
    /\ [](pc = "start" => tick = 0 /\ markets = <<>> /\ bg = "none")
    /\ [](~config.enabled => bg = "none")
    /\ [][pc = "start" /\ pc' # "start" =>
            /\ pc' = "idle"
            /\ tick' = 0
            /\ markets' = IF config.enabled /\ output'.ok
                          THEN convert_to_markets(output') ELSE config.markets
            /\ bg' = IF config.enabled THEN "sleeping" ELSE "none"]_vars

\* The bootstrap discovery failed and the main loop is about to start on
\* the static list.
C15_Witness ==
    /\ pc = "idle"
    /\ tick = 0
    /\ config.enabled
    /\ log = "Initial discovery failed"
    /\ markets = <<"B1">>

\* The pools Inventory holds for the addresses of a market list.
Named(ms) ==
    {V4Pool : i \in {j \in DOMAIN ms : ms[j] = "B1"}}
    \cup {CpPool : i \in {j \in DOMAIN ms : ms[j] = "B2"}}

\* C16: the tick's list is read once, when the tick starts, and kept to its
\* end; the pools a tick ingests are those of that list, whatever the
\* shared list has become since.
C16_TickUsesItsSnapshot ==
    /\ [](pc \in {"ingested", "detected"} =>
            \A e \in EdgeSet(installed) : e[2].pool_pubkey \in Named(tick_markets))
    /\ [][/\ tick' # tick => tick_markets' = markets
          /\ tick' = tick => tick_markets' = tick_markets]_vars

\* The list was replaced while a tick that had read the static list was
\* between its snapshot and its ingestion, and the tick ingested the one
\* pool of the static list.
C16_Witness ==
    /\ pc = "ingested"
    /\ tick_markets = <<"B1">>
    /\ \E i \in DOMAIN markets : markets[i] = "B2"
    /\ EdgeSet(installed) # {}

\* C18: a tick whose pool initialization fails ends there: the graph, the
\* market list, the detected cycles and the actionable cycles stay as they
\* were and the loop is back at its interval, ready for the next tick.
C18_IngestionErrorAbortsTick ==
    [][pc = "snapshotted" /\ log' = "Failed to initialize pools" =>
          /\ pc' \in {"snapshotted", "idle"}
          /\ UNCHANGED <<graph, markets, dargs, cycles, actionable>>]_vars

\* A tick was aborted after an earlier tick had filled the graph.
C18_Witness ==
    /\ pc = "idle"
    /\ log = "Failed to initialize pools"
    /\ tick = 2
    /\ EdgeSet(graph) # {}

\* C19: a tick that reads an empty market list ends at once, back at the
\* interval: it changes neither the graph nor the detected nor the
\* actionable cycles, and no ingestion, detection or optimization runs on
\* an empty list.
C19_EmptyListSkipsTick ==
    /\ [](pc \in {"snapshotted", "ingested", "detected"} => tick_markets # <<>>)
    /\ [][tick' # tick /\ markets = <<>> =>
            /\ pc' = "idle"
            /\ UNCHANGED <<graph, installed, dargs, cycles, actionable>>]_vars

\* A tick was skipped, and the tick before it was not.
C19_Witness ==
    /\ pc = "idle"
    /\ log = "No markets configured, skipping cycle"
    /\ tick = 2
    /\ EdgeSet(graph) # {}

(***************************************************************************)
(* Properties of the ingestion of pool state accounts.                     *)
(***************************************************************************)
\* The edges of g that carry pool p.
PoolEdges(g, p) == {e \in EdgeSet(g) : e[2].pool_pubkey = p}

\* The account is missing, does not decode, or holds no liquidity.
FailedPool(account) ==
    \/ ~account.fetch
    \/ ~account.layout
    \/ account.state.liquidity = 0

C21_ShutdownAtTickBoundary ==
    /\ (shutdown \in {"notified", "lost"}) ~> (mpc = "stopped")
    /\ [][mpc = "stopped" => (mpc' = "stopped" /\ mticks' = mticks)]_vars

(***************************************************************************)
(* Properties of save_results.                                             *)
(***************************************************************************)
\* C22: at every instant the output file holds a complete snapshot (or was
\* never written): every change of the file installs a complete snapshot,
\* also when the write fails.
C22_WholeFileAtomicity == file \in {NoOutput} \cup Snapshots

(***************************************************************************)
(* Properties of the decoders, parse_token_amount and the simulator.       *)
(***************************************************************************)
\* The last offset a decoder reads, plus 32.
RequiredLength(decoder) ==
    CASE decoder = "RaydiumAmmInfo" -> 432 + 32
      [] decoder = "RaydiumCpAmmInfo" -> 296 + 32
      [] decoder = "MeteoraDAmmV2Info" -> 264 + 32
      [] decoder = "SolfiInfo" -> 2768 + 32

\* C23: every decoder returns an error, and does not panic, for a buffer
\* shorter than its last required offset + 32, and a record for every
\* buffer at least that long.
C23_DecoderMalformedLayout ==
    call.fn \in Decoders =>
        call.result.kind = (IF Len(call.args) < RequiredLength(call.fn) THEN "err" ELSE "ok")

\* C24: parse_token_amount returns 0 for every buffer shorter than 72 bytes,
\* without panicking, and the little-endian word at offset 64 otherwise.
C24_VaultBalanceExtraction ==
    call.fn = "parse_token_amount" =>
        call.result = (IF Len(call.args) < 72 THEN Ok(0)
                       ELSE Ok(call.args[65] + 256 * call.args[66] + 65536 * call.args[67]))

\* C26: simulate_transaction succeeds iff estimated_profit_lamports > 0,
\* with 400000 compute units on success, and simulate_with_sdk returns an
\* error value, without panicking, for every cycle.
C26_SimulatorGate ==
    /\ call.fn = "simulate_transaction" =>
          /\ call.result.kind = "ok"
          /\ call.result.value.success = (call.args.estimated_profit_lamports > 0)
          /\ call.result.value.success => call.result.value.cu_consumed = 400000
    /\ call.fn = "simulate_with_sdk" => call.result.kind = "err"

(***************************************************************************)
(* Properties of the ingestion of vault pools.                             *)
(***************************************************************************)
\* C25: a pool whose SOL vault holds 0 installs no edge in the tick, and when
\* it is the mint's only pool the mint's bucket is empty after the tick.
C25_ZeroReserveEmitsNoEdges ==
    \A p \in DOMAIN accounts :
        (accounts[p].ok /\ accounts[p].sol = 0) =>
            /\ PoolEdges(installed, p) = {}
            /\ DOMAIN accounts = {p} => graph[TokenMint] = <<>>

(***************************************************************************)
(* Properties of the detector's result order and profit.                   *)
(***************************************************************************)
\* The cycles the scan accepted, in the order of acceptance.
AcceptedCycles ==
    CheckPass(IterAll(graph, dargs.ord), 1,
              Relaxed(graph, dargs.ord, dargs.start_mint, dargs.max_hops),
              dargs.min_hops, dargs.max_hops, dargs.min_profit_bps)

\* The cycles of s with profit bps, in their order in s.
EqualProfit(s, bps) == SelectSeq(s, LAMBDA c : c.total_profit_bps = bps)

\* C27: the result is sorted by total_profit_bps in descending order, and
\* the cycles of equal total_profit_bps are in the order of acceptance.
C27_SortedStable ==
    pc = "detected" =>
        /\ \A i \in 1 .. Len(cycles) - 1 :
              cycles[i].total_profit_bps >= cycles[i + 1].total_profit_bps
        /\ Len(cycles) = Len(AcceptedCycles)
        /\ \A i \in 1 .. Len(cycles) :
              EqualProfit(cycles, cycles[i].total_profit_bps)
                  = EqualProfit(AcceptedCycles, cycles[i].total_profit_bps)

\* A result with two different cycles of equal profit.
C27_Witness ==
    /\ pc = "detected"
    /\ Len(cycles) >= 2
    /\ cycles[1].total_profit_bps = cycles[2].total_profit_bps
    /\ cycles[1] # cycles[2]

\* C28: for the round trip A->B @2.00, B->A @0.505 with fee_bps 30 on each
\* edge, the detector (start A, hop bounds admitting 2, min_profit_bps 0)
\* returns a cycle whose total_profit_bps is net of the fees (between 25 and
\* 40 bps), not the fee-free 100.
C28_ProfitNetOfFees ==
    (/\ pc = "detected"
     /\ graph \in FeeGraphs
     /\ dargs.min_hops <= 2 /\ dargs.max_hops >= 2
     /\ dargs.min_profit_bps = 0)
    => \E i \in 1 .. Len(cycles) : cycles[i].total_profit_bps \in 25 .. 40

\* C29: when one endpoint of the feed answers 404 and the other answers with
\* pools, the harvest does not fail and the candidate tokens are those of
\* the other endpoint's pools.
C29_NotFoundIsEmpty ==
    \A e \in {<<dinput.trending, dinput.top>>, <<dinput.top, dinput.trending>>} :
        (e[1].status = 404 /\ e[2].status = 200 /\ dpc # "harvest") =>
            /\ dpc # "failed"
            /\ {j[1] : j \in joined} \subseteq DiscoveredTokens(e[2].pools)
            /\ (dpc = "done" => {j[1] : j \in joined} = DiscoveredTokens(e[2].pools))

(***************************************************************************)
(* Properties of the filter of process_token on a token with three pools   *)
(***************************************************************************)
\* The run of run_discovery on the token whose three verified SOL pools
\* hold 10, 8 and 3 thousand USD, with the minimum min_liquidity_usd.
ThreePoolRun(min_liquidity_usd) ==
    /\ dpc = "done"
    /\ Feed(dinput) = ThreePoolFeed
    /\ dinput.min_liquidity_usd = min_liquidity_usd

\* The entry of TokenG that holds the pools of the addresses addrs.
ThreePoolEntry(addrs) ==
    DiscoveredToken(TokenG,
        [i \in DOMAIN addrs |->
            DiscoveredPool(PairFeed(TokenG)[CHOOSE k \in DOMAIN PairFeed(TokenG) :
                                               PairFeed(TokenG)[k].pair_address = addrs[i]],
                           verify_pool_on_chain(Chain[addrs[i]]), "quote")])

\* C30: a token with 3 verified pools of liquidity $10k/$8k/$3k and
\* min_liq = $5k yields a retained token with the 3 pools ordered by
\* descending liquidity_usd and total_liquidity = $21k (or no token when the
\* pair feed could not be read); min_liq = $20k yields an empty tokens array.
C30_ThreePoolsRetained ==
    /\ ThreePoolRun(5) =>
          /\ output.tokens \in {<<>>, <<ThreePoolEntry(<<"G1", "G2", "G3">>)>>}
          /\ \A i \in DOMAIN output.tokens : output.tokens[i].total_liquidity = 21
    /\ ThreePoolRun(20) => output.tokens = <<>>

\* C30, as the code decides it: with min_liq = $5k the $3k pool is filtered
\* out before the token is assembled, so the retained token holds the 2
\* pools of $10k and $8k in descending order of liquidity_usd and has
\* total_liquidity = $18k; min_liq = $20k yields an empty tokens array.
C30_SurvivingPoolsRetained ==
    /\ ThreePoolRun(5) =>
          /\ output.tokens \in {<<>>, <<ThreePoolEntry(<<"G1", "G2">>)>>}
          /\ \A i \in DOMAIN output.tokens : output.tokens[i].total_liquidity = 18
    /\ ThreePoolRun(20) => output.tokens = <<>>

C30_Witness ==
    /\ ThreePoolRun(5)
    /\ output.tokens = <<ThreePoolEntry(<<"G1", "G2">>)>>
    /\ output.tokens[1].pools[1].liquidity_usd = 10
    /\ output.tokens[1].pools[2].liquidity_usd = 8

(***************************************************************************)
(* Properties of the relaxation of find_negative_cycles.                   *)
(***************************************************************************)
\* The mints some path of edges leads to from the mints of S.
Successors(g, S) == UNION {{g[k][i].dst : i \in DOMAIN g[k]} : k \in S}

RECURSIVE ReachFrom(_, _)
ReachFrom(g, S) ==
    IF Successors(g, S) \subseteq S THEN S ELSE ReachFrom(g, S \cup Successors(g, S))

\* C31: relaxation only propagates from mints already reached from
\* start_mint: when find_negative_cycles returns, every key that holds a
\* distance or a predecessor is a mint some path from start_mint leads to
\* (an unreached source is +infinity whatever the edge's price), the
\* predecessor of an edge u -> v is recorded under v, and every edge of a
\* returned cycle starts at a mint reached from start_mint.
C31_RelaxationFromReachedOnly ==
    pc = "detected" =>
        \A st \in {Relaxed(graph, dargs.ord, dargs.start_mint, dargs.max_hops)} :
            /\ \A k \in Pubkeys :
                  (st.dist[k] # Absent \/ st.pred[k] # NoPred)
                      => k \in ReachFrom(graph, {dargs.start_mint})
            /\ \A k \in Pubkeys : st.pred[k] # NoPred => st.pred[k][2].dst = k
            /\ \A i \in DOMAIN cycles : \A j \in DOMAIN cycles[i].walk :
                  cycles[i].walk[j][1] \in ReachFrom(graph, {dargs.start_mint})

(***************************************************************************)
(* Properties of simulate_cycle_with_amount and of a fruitless search.     *)
(***************************************************************************)
\* Amounts at which the cycle is simulated: 1 and 2 lamports, the smallest
\* amount of the search and the cap.
ProbeAmounts(a) == {1, 2, MinAmount, Cap(a)}

\* Some leg of the cycle has no edge under (from_mint, pool_pubkey, dex_type).
EdgeMissing(g, cycle) ==
    \E i \in DOMAIN cycle.legs : find_edge_in_graph(g, cycle.legs[i]) = NoEdge

\* The first leg's edge is found and its output at amount floors to 0.
FirstLegFloorsToZero(g, ord, cycle, amount) ==
    /\ find_edge_in_graph(g, cycle.legs[1]) # NoEdge
    /\ LegOutput(g, ord, find_edge_in_graph(g, cycle.legs[1]), amount,
                 cycle.legs[1].pool_pubkey) = 0

\* Every edge of the graph has a price of at most 1: with a positive fee no
\* amount comes back larger than it went in.
NoGain(g) == \A k \in Pubkeys : \A i \in DOMAIN g[k] : ~RLt(1, 1, g[k][i].price[2], g[k][i].price[3])

SlippageAmounts == {MinAmount, 30000000, 2000000000}

\* 0.5 * (trade_usd / pool_liquidity_usd) * 100 with trade_usd =
\* amount / 1e9 * 200 is amount / (100000 * pool_liquidity_usd): its
\* integer part, and the nearest integer (halves away from zero).
SlippageRatioFloor(amount, liq) == (amount * liq[3]) \div (liq[2] * 100000)

SlippageRatioRound(amount, liq) ==
    SlippageRatioFloor(amount, liq)
        + (IF 2 * ((amount * liq[3]) % (liq[2] * 100000)) >= liq[2] * 100000
           THEN 1 ELSE 0)

Clamp(x, lo, hi) == IF x < lo THEN lo ELSE IF x > hi THEN hi ELSE x

\* The slippage of the pool of edge at amount, for each iteration order of
\* the graph's map.
SlippagesOf(edge, amount) ==
    {calculate_slippage_bps(graph, ord, amount, edge.pool_pubkey) :
        ord \in Perms(GraphKeys(graph))}

\* The liquidity calculate_slippage_bps reads for the pool of edge: that of
\* the first edge of the pool in the iteration order.
LiquiditiesOf(edge) ==
    {FirstPool(IterAll(graph, ord), edge.pool_pubkey, 1).liquidity_usd :
        ord \in Perms(GraphKeys(graph))}

InstalledEdges == UNION {{graph[k][i] : i \in DOMAIN graph[k]} : k \in Pubkeys}

\* C33: for every amount and every pool the slippage used in simulation is
\* clamp(10 + round(0.5 * (trade_usd / pool_liquidity_usd) * 100), 10, 100),
\* so it lies in [10, 100] bps, and fee_bps + slippage_bps of every edge
\* installed by ingestion is below 10_000.
C33_SlippageRounded ==
    \A edge \in InstalledEdges : \A amount \in SlippageAmounts :
        /\ \A ord \in Perms(GraphKeys(graph)) :
              calculate_slippage_bps(graph, ord, amount, edge.pool_pubkey)
                  = Clamp(10 + SlippageRatioRound(amount,
                               FirstPool(IterAll(graph, ord), edge.pool_pubkey,
                                         1).liquidity_usd),
                          10, 100)
        /\ \A s \in SlippagesOf(edge, amount) :
              10 <= s /\ s <= 100 /\ edge.fee_bps + s < 10000

\* C33, as the code computes it: the ratio is truncated, not rounded
\* (`as u64`), over a liquidity of at least 1 USD:
\* min(10 + floor(0.5 * (trade_usd / max(pool_liquidity_usd, 1)) * 100), 100).
C33_SlippageTruncated ==
    \A edge \in InstalledEdges : \A amount \in SlippageAmounts :
        /\ \A ord \in Perms(GraphKeys(graph)) :
              calculate_slippage_bps(graph, ord, amount, edge.pool_pubkey)
                  = Clamp(10 + SlippageRatioFloor(amount,
                               MaxOne(FirstPool(IterAll(graph, ord), edge.pool_pubkey,
                                                1).liquidity_usd)),
                          10, 100)
        /\ \A s \in SlippagesOf(edge, amount) :
              10 <= s /\ s <= 100 /\ edge.fee_bps + s < 10000

\* An installed pool of 200 USD: at 0.03 SOL the ratio is 1.5 (11 bps,
\* where rounding gives 12), at 2 SOL the cap of 100 applies.
C33_Witness ==
    /\ pc = "ingested"
    /\ \E edge \in InstalledEdges :
          /\ LiquiditiesOf(edge) = {Fin(200, 1)}
          /\ SlippagesOf(edge, 30000000) = {11}
          /\ SlippagesOf(edge, 2000000000) = {100}
          /\ SlippagesOf(edge, MinAmount) = {10}

(***************************************************************************)
(* Properties of the ingestion of the CLMM forks' pools.                   *)
(***************************************************************************)
\* The account was fetched and its owner is not the program of the fork
\* the pool is listed under.
OwnerMismatch(p) ==
    accounts[p].fetch /\ accounts[p].owner # ForkProgram(ForkInventory, p)

\* The account was fetched, is owned by the fork's program and decodes.
ForkPoolReadable(p) ==
    /\ accounts[p].fetch
    /\ accounts[p].owner = ForkProgram(ForkInventory, p)
    /\ accounts[p].layout

\* C34: in every tick a PancakeSwap or Byreal pool whose fetched account is
\* owned by another program installs no edges, and the driver continues:
\* every other pool of the tick whose account is the fork's and decodes
\* installs its two edges.
C34_ForkOwnerMismatchSkipped ==
    tick > 0 =>
        \A p \in ForkPools(ForkInventory) :
            /\ OwnerMismatch(p) => PoolEdges(installed, p) = {}
            /\ ForkPoolReadable(p) => Cardinality(PoolEdges(installed, p)) = 2

C34_Witness ==
    /\ tick > 0
    /\ OwnerMismatch(10)
    /\ accounts[10].layout
    /\ PoolEdges(installed, 10) = {}
    /\ ForkPoolReadable(11)
    /\ ForkPoolReadable(12)
    /\ Cardinality(PoolEdges(installed, 11)) = 2
    /\ Cardinality(PoolEdges(installed, 12)) = 2

(***************************************************************************)
(* Properties of the per-pair failures of process_token.                   *)
(***************************************************************************)
\* The pairs of a token's pair list that are SOL pairs, whose pool account
\* is found with a known owner, and that pass the minima.
SurvivingPair(cfg, pair) ==
    /\ SolSide(pair) # ""
    /\ verify_pool_on_chain(Chain[pair.pair_address]).kind = "some"
    /\ Admit(cfg, pair)

SurvivingPairs(cfg, token_addr) ==
    {i \in DOMAIN PairFeed(token_addr) : SurvivingPair(cfg, PairFeed(token_addr)[i])}

\* C35: a failure on one pair (unparseable pool address, account fetch
\* failure, unknown owner) discards only that pair: no task ends in an
\* error because of a pair, and a token whose pair list was read is
\* emitted with exactly its surviving pairs when at least 2 survive.
C35_PairFailureLocal ==
    \A j \in joined :
        /\ j[2].kind # "err"
        /\ j[2].kind = "some" =>
              /\ Cardinality(SurvivingPairs(dinput, j[1])) >= 2
              /\ {j[2].pools[i].pool_address : i \in DOMAIN j[2].pools}
                    = {PairFeed(j[1])[i].pair_address :
                          i \in SurvivingPairs(dinput, j[1])}

(***************************************************************************)
(* Properties of the order of a tick and of the writers of the PriceGraph. *)
(***************************************************************************)
\* C36: within a tick every edge is installed before detection starts, and
\* from the start of detection to the end of the tick's optimization the
\* PriceGraph does not change: the graph changes only in the tick's build
\* step, which precedes detection; find_negative_cycles, optimize_amount
\* and the background discovery leave it as it is.
C36_GraphFrozenDuringDetection ==
    [][/\ pc \in {"ingested", "detected"} => graph' = graph
       /\ graph' # graph => (pc = "snapshotted" /\ pc' = "ingested")
       /\ pc' = "detected" => pc \in {"ingested", "detected"}]_vars

\* Detection has run on a graph with edges, and the background discovery
\* replaced the market list after the tick's build.
C36_Witness ==
    /\ pc = "detected"
    /\ EdgeSet(graph) # {}
    /\ dargs # NoArgs
    /\ log = "Markets updated"

(***************************************************************************)
(* Properties of the length of find_negative_cycles' loops.                *)
(***************************************************************************)
\* The keys a predecessor walk stood on: its end, then the source of each
\* entry of the path but the last.
WalkKeys(end, path) == [i \in DOMAIN path |-> IF i = 1 THEN end ELSE path[i - 1][1]]

\* The walk from end is at most max_hops + 1 steps long and stands on no
\* key twice.
WalkBounded(pred, start, min_hops, max_hops, end) ==
    \A w \in {Walk(pred, start, min_hops, max_hops, end, <<>>, {})} :
        /\ Len(w.path) <= max_hops + 1
        /\ \A i \in DOMAIN w.path : \A j \in DOMAIN w.path :
              i # j => WalkKeys(end, w.path)[i] # WalkKeys(end, w.path)[j]

\* C37: find_negative_cycles terminates on every graph, cycles that keep
\* relaxing and self-loops included: relaxation runs at most max_hops
\* rounds, every round before the last one made an update and a round
\* without an update is the last one, and every predecessor walk ends after
\* at most max_hops + 1 steps or at the first key it meets again.
C37_DetectorLoopsBounded ==
    pc = "detected" =>
        \A st \in {Relaxed(graph, dargs.ord, dargs.start_mint, dargs.max_hops)} :
            /\ st.rounds <= dargs.max_hops
            /\ st.updated => st.rounds = dargs.max_hops
            /\ \A r \in 1 .. (st.rounds - 1) :
                  RelaxRounds(IterAll(graph, dargs.ord), r,
                              InitRelax(dargs.start_mint)).updated
            /\ \A start \in Pubkeys, end \in Pubkeys :
                  WalkBounded(st.pred, start, dargs.min_hops, dargs.max_hops, end)

\* A self-loop or cycle that relaxes in every round: relaxation stops at
\* the bound, and a walk stopped at a key it met again.
C37_Witness ==
    /\ pc = "detected"
    /\ dargs.max_hops = MaxHops
    /\ \E st \in {Relaxed(graph, dargs.ord, dargs.start_mint, dargs.max_hops)} :
          /\ st.rounds = MaxHops
          /\ st.updated
          /\ \E k \in Pubkeys :
                /\ st.pred[k] # NoPred
                /\ st.pred[k][1] = k
                /\ Len(Walk(st.pred, dargs.start_mint, 2, dargs.max_hops, k, <<>>,
                            {}).path) = 1

(***************************************************************************)
(* Properties of the prices of installed edges.                            *)
(***************************************************************************)
\* C38: every edge of the PriceGraph, after any sequence of ingestion
\* ticks, has a strictly positive, finite price; this includes the inverse
\* edge of a pool whose token-side reserve is 0.
C38_PricesPositiveFinite ==
    \A k \in Pubkeys : \A i \in DOMAIN graph[k] :
        /\ graph[k][i].price[1] = "fin"
        /\ graph[k][i].price[2] > 0

(***************************************************************************)
(* Properties of PetgraphEngine.                                           *)
(***************************************************************************)
\* The graph holds the edge from -> to and it carries the pool's address.
EdgeOfPool(e, from, to, address) ==
    /\ <<from, to>> \in DOMAIN e.edges
    /\ e.edges[<<from, to>>].pool_address = address

\* C39: after any sequence of add_or_update_pool, remove_pool and clear the
\* pool table, the pool index and the graph agree: get_pool returns a pool
\* iff the pool index holds its address, and for every stored pool the
\* graph holds the edges token_a -> token_b and token_b -> token_a carrying
\* the pool's address.
C39_EngineTablesAgree ==
    /\ DOMAIN graph_engine.pools = DOMAIN graph_engine.pool_index
    /\ \A address \in DOMAIN graph_engine.pools :
          /\ graph_engine.pool_index[address]
                = <<graph_engine.pools[address].token_a,
                    graph_engine.pools[address].token_b>>
          /\ EdgeOfPool(graph_engine, graph_engine.pools[address].token_a,
                        graph_engine.pools[address].token_b, address)
          /\ EdgeOfPool(graph_engine, graph_engine.pools[address].token_b,
                        graph_engine.pools[address].token_a, address)

====
